---- MODULE Spec2Model ----
(***************************************************************************)
(* Verification model of obsidian-smart-workflow:                          *)
(*   - ConfigManager (services/config/configManager.ts): providers,        *)
(*     models, feature bindings, key selection and rotation;               *)
(*   - AIClient (services/ai/modelFetcher.ts): request, requestStream,     *)
(*     cancel.                                                             *)
(*                                                                         *)
(* Representation choices.                                                 *)
(*   - A JavaScript string that the code trims or tests for emptiness is   *)
(*     a sequence of one-character strings; API key values, which the code *)
(*     only tests for truthiness, are TLA+ strings with KUndef standing    *)
(*     for undefined.                                                      *)
(*   - An optional number (currentKeyIndex, maxOutputTokens) is the empty  *)
(*     sequence when undefined and a one-element sequence when set.        *)
(*   - Ids produced by generateId are fresh naturals 1, 2, ...; the empty  *)
(*     string id of the default binding is EmptyId.                        *)
(*   - Arrays are sequences (index i of the code is position i+1), except  *)
(*     that currentKeyIndex keeps the code's 0-based value.                *)
(*   - temperature and topP are kept in tenths (0.7 is 7).                 *)
(***************************************************************************)
EXTENDS Integers, Sequences, FiniteSets, TLC

VARIABLES
    providers,        \* settings.providers
    featureBindings,  \* settings.featureBindings
    nextId,           \* ids handed out so far by generateId, plus one
    secretServiceSet, \* ConfigManager._secretService is injected
    secretStorage,    \* what ISecretService.getSecret returns for each id
    lastOp,           \* the last operation: name, arguments, outcome
    saved,            \* the last operation invoked onSettingsChange
    rotLog,           \* indices and keys returned by the current run of rotateApiKey calls
    client,           \* AIClient fields
    transport,        \* the streaming transport (LLM client): subscriptions, stream
    calls,            \* the request / requestStream calls issued on the client
    naming,           \* AIService: the generateFileName call and its outcome
    parsing,          \* ResponseParser: the response given to parse and its outcome
    cache,            \* SecretService.cache
    terminal          \* TerminalInstance: fields, sockets and timers

cfgVars == <<providers, featureBindings, nextId, secretServiceSet, secretStorage,
             lastOp, saved, rotLog>>
cliVars == <<client, transport, calls>>
vars == <<providers, featureBindings, nextId, secretServiceSet, secretStorage,
          lastOp, saved, rotLog, client, transport, calls, naming, parsing,
          cache, terminal>>

(***************************************************************************)
(* Bounds of the model                                                     *)
(***************************************************************************)
MaxIds == 3
MaxKeys == 3
MaxRotations == 4

(***************************************************************************)
(* Program constants                                                       *)
(***************************************************************************)
EmptyId == 0
KUndef == "<undefined>"
KEmpty == ""
NoKeyConfig == [mode |-> "undefined"]
NoResult == [tag |-> "undefined"]
ADVANCED_PROMPT_TEMPLATE == "ADVANCED_PROMPT_TEMPLATE"

\* the feature list of resetBindingsForProvider / resetBindingsForModel
Features == <<"naming", "translation", "writing", "tagging", "categorizing">>

FeatureSet == {Features[i] : i \in 1..Len(Features)}

DEFAULT_FEATURE_BINDINGS ==
    [f \in {"naming"} |->
        [providerId |-> EmptyId, modelId |-> EmptyId,
         promptTemplate |-> ADVANCED_PROMPT_TEMPLATE]]

(***************************************************************************)
(* JavaScript helpers                                                      *)
(***************************************************************************)
IsSpace(c) == c = " "

RECURSIVE TrimStart(_)
TrimStart(s) ==
    IF s = <<>> THEN <<>>
    ELSE IF IsSpace(Head(s)) THEN TrimStart(Tail(s)) ELSE s

RECURSIVE TrimEnd(_)
TrimEnd(s) ==
    IF s = <<>> THEN <<>>
    ELSE IF IsSpace(s[Len(s)]) THEN TrimEnd(SubSeq(s, 1, Len(s) - 1)) ELSE s

\* String.prototype.trim
Trim(s) == TrimEnd(TrimStart(s))

\* Array.prototype.findIndex on an id; 0 stands for -1, otherwise position
RECURSIVE FindIndexFrom(_, _, _)
FindIndexFrom(arr, id, i) ==
    IF i > Len(arr) THEN 0
    ELSE IF arr[i].id = id THEN i ELSE FindIndexFrom(arr, id, i + 1)

FindIndex(arr, id) == FindIndexFrom(arr, id, 1)

\* Array.prototype.splice(index, 1)
RemoveAt(arr, i) == SubSeq(arr, 1, i - 1) \o SubSeq(arr, i + 1, Len(arr))

\* Array.prototype.splice(index, 0, x)
InsertAt(arr, i, x) == SubSeq(arr, 1, i - 1) \o <<x>> \o SubSeq(arr, i, Len(arr))

\* Object.assign(target, updates): own properties of updates overwrite
ObjectAssign(target, updates) ==
    [f \in (DOMAIN target) \cup (DOMAIN updates) |->
        IF f \in DOMAIN updates THEN updates[f] ELSE target[f]]

\* a ?? 0 on an optional number
OrZero(opt) == IF opt = <<>> THEN 0 ELSE opt[1]

(***************************************************************************)
(* ConfigManager: results of an operation                                  *)
(*   S is the settings record [providers, featureBindings]; an operation   *)
(*   yields the new settings, whether it threw, whether it called          *)
(*   onSettingsChange, and its return value.                               *)
(***************************************************************************)
Settings == [providers |-> providers, featureBindings |-> featureBindings]

Threw(S) == [S |-> S, threw |-> TRUE, saved |-> FALSE, ret |-> NoResult]

\* saveSettings: invoke the persistence callback
saveSettings(S, ret) == [S |-> S, threw |-> FALSE, saved |-> TRUE, ret |-> ret]

Returned(S, ret) == [S |-> S, threw |-> FALSE, saved |-> FALSE, ret |-> ret]

\* getProvider: position of the provider in settings.providers, 0 when absent
getProvider(S, id) == FindIndex(S.providers, id)


(***************************************************************************)
(* ConfigManager: provider CRUD                                            *)
(***************************************************************************)
\* addProvider: newId is the value generateId returns
addProvider(S, newId, provider) ==
    IF provider.name = <<>> \/ Trim(provider.name) = <<>> THEN Threw(S)
    ELSE IF provider.endpoint = <<>> \/ Trim(provider.endpoint) = <<>> THEN Threw(S)
    ELSE LET newProvider == ObjectAssign(provider, [id |-> newId, models |-> <<>>])
         IN  saveSettings([S EXCEPT !.providers = Append(@, newProvider)],
                          [tag |-> "provider", id |-> newId])

updateProvider(S, id, updates) ==
    LET i == getProvider(S, id) IN
    IF i = 0 THEN Threw(S)
    ELSE IF "name" \in DOMAIN updates /\ Trim(updates.name) = <<>> THEN Threw(S)
    ELSE IF "endpoint" \in DOMAIN updates /\ Trim(updates.endpoint) = <<>> THEN Threw(S)
    ELSE saveSettings([S EXCEPT !.providers[i] = ObjectAssign(@, updates)], NoResult)

\* the feature loop of resetBindingsForProvider, from position k of Features
RECURSIVE resetProviderLoop(_, _, _)
resetProviderLoop(fb, providerId, k) ==
    IF k > Len(Features) THEN fb
    ELSE LET feature == Features[k]
             hit == feature \in DOMAIN fb /\ fb[feature].providerId = providerId
             fb1 == IF ~hit THEN fb
                    ELSE IF feature \in DOMAIN DEFAULT_FEATURE_BINDINGS
                         THEN [fb EXCEPT ![feature] = DEFAULT_FEATURE_BINDINGS[feature]]
                         ELSE [g \in (DOMAIN fb) \ {feature} |-> fb[g]]
         IN  resetProviderLoop(fb1, providerId, k + 1)

\* mutant: the provider is removed without its bindings being reset
resetBindingsForProviderSkipped(S, providerId) == S

\* resetBindingsForProvider; settings.voice is undefined in the modelled
\* settings, which makes the two voice branches no-ops
resetBindingsForProvider(S, providerId) ==
    [S EXCEPT !.featureBindings = resetProviderLoop(@, providerId, 1)]

deleteProvider(S, id) ==
    LET index == FindIndex(S.providers, id) IN
    IF index = 0 THEN Threw(S)
    ELSE LET S1 == resetBindingsForProvider(S, id)
         IN  saveSettings([S1 EXCEPT !.providers = RemoveAt(@, index)], NoResult)

(***************************************************************************)
(* ConfigManager: model CRUD                                               *)
(***************************************************************************)
\* validateModelConfig: TRUE when it returns, FALSE when it throws
validateModelConfig(model) ==
    /\ ~(model.name = <<>> \/ Trim(model.name) = <<>>)
    /\ ~(model.temperature < 0 \/ model.temperature > 20)
    /\ ~(model.maxOutputTokens # <<>> /\
         (model.maxOutputTokens[1] % 10 # 0 \/ model.maxOutputTokens[1] < 0))
    /\ ~(model.topP < 0 \/ model.topP > 10)

addModel(S, newId, providerId, model) ==
    LET i == getProvider(S, providerId) IN
    IF i = 0 THEN Threw(S)
    ELSE IF ~validateModelConfig(model) THEN Threw(S)
    ELSE LET newModel == ObjectAssign(model, [id |-> newId])
         IN  saveSettings([S EXCEPT !.providers[i].models = Append(@, newModel)],
                          [tag |-> "model", id |-> newId])

\* mutant: the updates are applied to the stored model before they are validated
updateModelApplyFirst(S, providerId, modelId, updates) ==
    LET i == getProvider(S, providerId) IN
    IF i = 0 THEN Threw(S)
    ELSE LET j == FindIndex(S.providers[i].models, modelId) IN
         IF j = 0 THEN Threw(S)
         ELSE LET S1 == [S EXCEPT !.providers[i].models[j] = ObjectAssign(@, updates)]
              IN  IF ~validateModelConfig(S1.providers[i].models[j]) THEN Threw(S1)
                  ELSE saveSettings(S1, NoResult)

updateModel(S, providerId, modelId, updates) ==
    LET i == getProvider(S, providerId) IN
    IF i = 0 THEN Threw(S)
    ELSE LET j == FindIndex(S.providers[i].models, modelId) IN
         IF j = 0 THEN Threw(S)
         ELSE LET model == S.providers[i].models[j]
                  merged == ObjectAssign(model, updates)
              IN  IF ~validateModelConfig(merged) THEN Threw(S)
                  ELSE saveSettings(
                         [S EXCEPT !.providers[i].models[j] = ObjectAssign(@, updates)],
                         NoResult)

\* the feature loop of resetBindingsForModel, from position k of Features
RECURSIVE resetModelLoop(_, _, _, _)
resetModelLoop(fb, providerId, modelId, k) ==
    IF k > Len(Features) THEN fb
    ELSE LET feature == Features[k]
             hit == /\ feature \in DOMAIN fb
                    /\ fb[feature].providerId = providerId
                    /\ fb[feature].modelId = modelId
             fb1 == IF ~hit THEN fb
                    ELSE IF feature \in DOMAIN DEFAULT_FEATURE_BINDINGS
                         THEN [fb EXCEPT ![feature] = DEFAULT_FEATURE_BINDINGS[feature]]
                         ELSE [g \in (DOMAIN fb) \ {feature} |-> fb[g]]
         IN  resetModelLoop(fb1, providerId, modelId, k + 1)

\* mutant: every binding of the provider is reset, whatever its model
resetBindingsForModelAnyModel(S, providerId, modelId) ==
    resetBindingsForProvider(S, providerId)

\* resetBindingsForModel; the voice branches are no-ops (settings.voice undefined)
resetBindingsForModel(S, providerId, modelId) ==
    [S EXCEPT !.featureBindings = resetModelLoop(@, providerId, modelId, 1)]

deleteModel(S, providerId, modelId) ==
    LET i == getProvider(S, providerId) IN
    IF i = 0 THEN Threw(S)
    ELSE LET index == FindIndex(S.providers[i].models, modelId) IN
         IF index = 0 THEN Threw(S)
         ELSE LET S1 == resetBindingsForModel(S, providerId, modelId)
              IN  saveSettings([S1 EXCEPT !.providers[i].models = RemoveAt(@, index)],
                               NoResult)

\* reorderModel: fromIndex and toIndex are the code's 0-based indices
reorderModel(S, providerId, fromIndex, toIndex) ==
    LET i == getProvider(S, providerId) IN
    IF i = 0 THEN Threw(S)
    ELSE LET models == S.providers[i].models IN
         IF fromIndex < 0 \/ fromIndex >= Len(models) \/
            toIndex < 0 \/ toIndex >= Len(models) THEN Threw(S)
         ELSE IF fromIndex = toIndex THEN Returned(S, NoResult)
         ELSE LET model == models[fromIndex + 1]
                  rest == RemoveAt(models, fromIndex + 1)
              IN  saveSettings(
                    [S EXCEPT !.providers[i].models = InsertAt(rest, toIndex + 1, model)],
                    NoResult)

(***************************************************************************)
(* ConfigManager: feature bindings                                         *)
(***************************************************************************)
\* mutant: the model id of the binding is not validated
setFeatureBindingAnyModel(S, feature, binding) ==
    LET i == getProvider(S, binding.providerId) IN
    IF i = 0 THEN Threw(S)
    ELSE saveSettings(
           [S EXCEPT !.featureBindings =
               [g \in (DOMAIN @) \cup {feature} |->
                   IF g = feature THEN binding ELSE @[g]]],
           NoResult)

setFeatureBinding(S, feature, binding) ==
    LET i == getProvider(S, binding.providerId) IN
    IF i = 0 THEN Threw(S)
    ELSE IF FindIndex(S.providers[i].models, binding.modelId) = 0 THEN Threw(S)
    ELSE saveSettings(
           [S EXCEPT !.featureBindings =
               [g \in (DOMAIN @) \cup {feature} |->
                   IF g = feature THEN binding ELSE @[g]]],
           NoResult)

\* mutant: a binding whose model is gone falls back to the provider's first model
resolveFeatureConfigFallback(S, feature) ==
    IF feature \notin DOMAIN S.featureBindings THEN NoResult
    ELSE LET binding == S.featureBindings[feature]
             i == getProvider(S, binding.providerId)
         IN  IF i = 0 THEN NoResult
             ELSE LET provider == S.providers[i]
                      j == FindIndex(provider.models, binding.modelId)
                  IN  IF j = 0 /\ provider.models = <<>> THEN NoResult
                      ELSE [tag |-> "config",
                            provider |-> provider,
                            model |-> provider.models[IF j = 0 THEN 1 ELSE j],
                            promptTemplate |-> binding.promptTemplate]

\* resolveFeatureConfig: NoResult stands for undefined
resolveFeatureConfig(S, feature) ==
    IF feature \notin DOMAIN S.featureBindings THEN NoResult
    ELSE LET binding == S.featureBindings[feature]
             i == getProvider(S, binding.providerId)
         IN  IF i = 0 THEN NoResult
             ELSE LET provider == S.providers[i]
                      j == FindIndex(provider.models, binding.modelId)
                  IN  IF j = 0 THEN NoResult
                      ELSE [tag |-> "config",
                            provider |-> provider,
                            model |-> provider.models[j],
                            promptTemplate |-> binding.promptTemplate]


(***************************************************************************)
(* ConfigManager: key resolution, selection and rotation                   *)
(***************************************************************************)
KNull == "<null>"

SecretIds == {"s1"}

\* JavaScript truthiness of a string | undefined | null
Truthy(v) == v \notin {KUndef, KNull, KEmpty}

Key(v) == [tag |-> "key", value |-> v]

\* keyConfigs[index] with the code's 0-based index; undefined past the end
KeyAt(keyConfigs, index) ==
    IF index >= 0 /\ index < Len(keyConfigs) THEN keyConfigs[index + 1] ELSE NoKeyConfig

\* resolveKeyValue: KUndef stands for undefined
resolveKeyValue(keyConfig) ==
    IF keyConfig = NoKeyConfig THEN KUndef
    ELSE IF keyConfig.mode = "shared"
         THEN IF ~Truthy(keyConfig.secretId) THEN KUndef
              ELSE IF ~secretServiceSet THEN KUndef
              ELSE LET value == secretStorage[keyConfig.secretId]
                   IN  IF value = KNull THEN KUndef ELSE value
         ELSE keyConfig.localValue

\* the loop of findNextAvailableKey from iteration k, for the provider at position i
RECURSIVE findNextLoop(_, _, _, _, _)
findNextLoop(S, i, startIndex, totalKeys, k) ==
    IF k >= totalKeys THEN Returned(S, Key(KUndef))
    ELSE LET index == (startIndex + k) % totalKeys
             value == resolveKeyValue(KeyAt(S.providers[i].keyConfigs, index))
         IN  IF Truthy(value)
             THEN IF index # startIndex
                  THEN saveSettings([S EXCEPT !.providers[i].currentKeyIndex = <<index>>],
                                    Key(value))
                  ELSE Returned(S, Key(value))
             ELSE findNextLoop(S, i, startIndex, totalKeys, k + 1)

\* mutant: the fallback key is returned without committing its index
findNextAvailableKeyUncommitted(S, i) ==
    LET r == findNextLoop(S, i, OrZero(S.providers[i].currentKeyIndex),
                          Len(S.providers[i].keyConfigs), 0)
    IN  Returned(S, r.ret)

findNextAvailableKey(S, i) ==
    LET provider == S.providers[i] IN
    IF Len(provider.keyConfigs) = 0 THEN Returned(S, Key(KUndef))
    ELSE findNextLoop(S, i, OrZero(provider.currentKeyIndex), Len(provider.keyConfigs), 0)

getApiKey(S, providerId) ==
    LET i == getProvider(S, providerId) IN
    IF i = 0 THEN Returned(S, Key(KUndef))
    ELSE LET provider == S.providers[i] IN
         IF Len(provider.keyConfigs) > 0
         THEN LET index == OrZero(provider.currentKeyIndex)
                  value == resolveKeyValue(KeyAt(provider.keyConfigs, index))
              IN  IF Truthy(value) THEN Returned(S, Key(value))
                  ELSE findNextAvailableKey(S, i)
         ELSE Returned(S, Key(resolveKeyValue(provider.keyConfig)))

\* the loop of rotateApiKey from iteration k (1..totalKeys)
RECURSIVE rotateLoop(_, _, _, _, _)
rotateLoop(S, i, currentIndex, totalKeys, k) ==
    IF k > totalKeys THEN Returned(S, Key(KUndef))
    ELSE LET nextIndex == (currentIndex + k) % totalKeys
             value == resolveKeyValue(KeyAt(S.providers[i].keyConfigs, nextIndex))
         IN  IF Truthy(value)
             THEN saveSettings([S EXCEPT !.providers[i].currentKeyIndex = <<nextIndex>>],
                               Key(value))
             ELSE rotateLoop(S, i, currentIndex, totalKeys, k + 1)

\* mutant: the scan starts at the current index instead of one past it
rotateApiKeyFromCurrent(S, providerId) ==
    LET i == getProvider(S, providerId) IN
    IF i = 0 THEN Returned(S, Key(KUndef))
    ELSE LET provider == S.providers[i] IN
         IF Len(provider.keyConfigs) <= 1
         THEN Returned(S, Key(resolveKeyValue(provider.keyConfig)))
         ELSE rotateLoop(S, i, OrZero(provider.currentKeyIndex), Len(provider.keyConfigs), 0)

rotateApiKey(S, providerId) ==
    LET i == getProvider(S, providerId) IN
    IF i = 0 THEN Returned(S, Key(KUndef))
    ELSE LET provider == S.providers[i] IN
         IF Len(provider.keyConfigs) <= 1
         THEN Returned(S, Key(resolveKeyValue(provider.keyConfig)))
         ELSE rotateLoop(S, i, OrZero(provider.currentKeyIndex), Len(provider.keyConfigs), 1)


(***************************************************************************)
(* ConfigManager: inputs of the operations                                 *)
(***************************************************************************)
Ids == 1..MaxIds

NameInputs == {<<>>, <<" ">>, <<"P">>}

EndpointInputs == {<<>>, <<"u">>}

ProviderInputs ==
    {[name |-> n, endpoint |-> e, keyConfig |-> NoKeyConfig, keyConfigs |-> <<>>,
      currentKeyIndex |-> <<>>] : n \in NameInputs, e \in EndpointInputs}

\* a model list the caller of updateProvider built itself: its one model has the
\* id of no generated model (the first generated id is a provider's) and a
\* temperature of 2.1
CallerModels ==
    <<[id |-> 1, name |-> <<"m">>, temperature |-> 21, topP |-> 10,
       maxOutputTokens |-> <<>>]>>

ProviderUpdateInputs ==
    {[name |-> n] : n \in NameInputs} \cup {[endpoint |-> e] : e \in EndpointInputs}
        \cup {[models |-> <<>>]}

\* updates of updateProvider that replace the model list
ModelListUpdateInputs == {[models |-> <<>>], [models |-> CallerModels]}

ValidModel == [name |-> <<"m">>, temperature |-> 7, topP |-> 10, maxOutputTokens |-> <<>>]

ModelInputs ==
    {ValidModel,
     [ValidModel EXCEPT !.name = <<" ">>],
     [ValidModel EXCEPT !.temperature = 21],
     [ValidModel EXCEPT !.topP = 11],
     [ValidModel EXCEPT !.maxOutputTokens = <<5>>]}

ModelUpdateInputs ==
    {[temperature |-> 20], [name |-> <<>>], [maxOutputTokens |-> <<-10>>]}

\* the features the operations are called with: the one feature that has a default
\* binding and one of the four that have none (the code treats those four alike)
FeatureInputs == {"naming", "translation"}

BindingInputs ==
    {[providerId |-> p, modelId |-> m, promptTemplate |-> "T"] :
        p \in {EmptyId} \cup Ids, m \in {EmptyId} \cup Ids}

KeyKinds ==
    {[mode |-> "local", secretId |-> KUndef, localValue |-> "k1"],
     [mode |-> "local", secretId |-> KUndef, localValue |-> KEmpty],
     [mode |-> "shared", secretId |-> "s1", localValue |-> KUndef]}

\* the key lists the key manager dialog saves after one edit of the list cur:
\* a key pushed at the end, or the key at one position spliced out
KeyListEdits(cur) ==
    {Append(cur, k) : k \in {kk \in KeyKinds : Len(cur) < MaxKeys}}
        \cup {RemoveAt(cur, i) : i \in 1..Len(cur)}

KeyUpdateInputs(cur) ==
    {[keyConfig |-> k] : k \in KeyKinds \cup {NoKeyConfig}}
        \cup {[keyConfigs |-> l] : l \in KeyListEdits(cur)}

(***************************************************************************)
(* ConfigManager: actions                                                  *)
(***************************************************************************)
EmptyLog == [pid |-> EmptyId, start |-> 0, idx |-> <<>>, rets |-> <<>>]

\* commit the outcome r of operation op(args)
Commit(r, op, args) ==
    /\ providers' = r.S.providers
    /\ featureBindings' = r.S.featureBindings
    /\ saved' = r.saved
    /\ lastOp' = [op |-> op, args |-> args, threw |-> r.threw, ret |-> r.ret]

AddProvider(provider) ==
    /\ nextId <= MaxIds
    /\ LET r == addProvider(Settings, nextId, provider) IN
       /\ Commit(r, "addProvider", <<>>)
       /\ nextId' = IF r.threw THEN nextId ELSE nextId + 1
    /\ rotLog' = EmptyLog
    /\ UNCHANGED <<secretServiceSet, secretStorage, client, transport, calls, naming, parsing,
                   cache, terminal>>

UpdateProvider(id, updates) ==
    /\ Commit(updateProvider(Settings, id, updates), "updateProvider", <<>>)
    /\ rotLog' = EmptyLog
    /\ UNCHANGED <<nextId, secretServiceSet, secretStorage, client, transport, calls, naming, parsing,
                   cache, terminal>>

DeleteProvider(id) ==
    /\ Commit(deleteProvider(Settings, id), "deleteProvider", <<id>>)
    /\ rotLog' = EmptyLog
    /\ UNCHANGED <<nextId, secretServiceSet, secretStorage, client, transport, calls, naming, parsing,
                   cache, terminal>>

AddModel(providerId, model) ==
    /\ nextId <= MaxIds
    /\ LET r == addModel(Settings, nextId, providerId, model) IN
       /\ Commit(r, "addModel", <<>>)
       /\ nextId' = IF r.threw THEN nextId ELSE nextId + 1
    /\ rotLog' = EmptyLog
    /\ UNCHANGED <<secretServiceSet, secretStorage, client, transport, calls, naming, parsing,
                   cache, terminal>>

UpdateModel(providerId, modelId, updates) ==
    /\ Commit(updateModel(Settings, providerId, modelId, updates),
              "updateModel", <<>>)
    /\ rotLog' = EmptyLog
    /\ UNCHANGED <<nextId, secretServiceSet, secretStorage, client, transport, calls, naming, parsing,
                   cache, terminal>>

DeleteModel(providerId, modelId) ==
    /\ Commit(deleteModel(Settings, providerId, modelId),
              "deleteModel", <<>>)
    /\ rotLog' = EmptyLog
    /\ UNCHANGED <<nextId, secretServiceSet, secretStorage, client, transport, calls, naming, parsing,
                   cache, terminal>>

ReorderModel(providerId, fromIndex, toIndex) ==
    /\ Commit(reorderModel(Settings, providerId, fromIndex, toIndex),
              "reorderModel", <<>>)
    /\ rotLog' = EmptyLog
    /\ UNCHANGED <<nextId, secretServiceSet, secretStorage, client, transport, calls, naming, parsing,
                   cache, terminal>>

SetFeatureBinding(feature, binding) ==
    /\ Commit(setFeatureBinding(Settings, feature, binding),
              "setFeatureBinding", <<>>)
    /\ rotLog' = EmptyLog
    /\ UNCHANGED <<nextId, secretServiceSet, secretStorage, client, transport, calls, naming, parsing,
                   cache, terminal>>

ResolveFeatureConfig(feature) ==
    /\ Commit(Returned(Settings, resolveFeatureConfig(Settings, feature)),
              "resolveFeatureConfig", <<feature>>)
    /\ rotLog' = EmptyLog
    /\ UNCHANGED <<nextId, secretServiceSet, secretStorage, client, transport, calls, naming, parsing,
                   cache, terminal>>

\* setSecretService
SetSecretService ==
    /\ ~secretServiceSet
    /\ secretServiceSet' = TRUE
    /\ lastOp' = [op |-> "setSecretService", args |-> <<>>, threw |-> FALSE, ret |-> NoResult]
    /\ saved' = FALSE
    /\ rotLog' = EmptyLog
    /\ UNCHANGED <<providers, featureBindings, nextId, secretStorage, client, transport, calls, naming, parsing,
                   cache, terminal>>

\* the secret store gains, changes or loses the value of secret id
SecretChange(id, value) ==
    /\ secretStorage[id] # value
    /\ secretStorage' = [secretStorage EXCEPT ![id] = value]
    /\ lastOp' = [op |-> "secretChange", args |-> <<id>>, threw |-> FALSE,
                  ret |-> NoResult]
    /\ saved' = FALSE
    /\ rotLog' = EmptyLog
    /\ UNCHANGED <<providers, featureBindings, nextId, secretServiceSet, client, transport, calls, naming, parsing,
                   cache, terminal>>

GetApiKey(providerId) ==
    /\ Commit(getApiKey(Settings, providerId), "getApiKey", <<providerId>>)
    /\ rotLog' = EmptyLog
    /\ UNCHANGED <<nextId, secretServiceSet, secretStorage, client, transport, calls, naming, parsing,
                   cache, terminal>>

\* currentKeyIndex of provider id in settings S, as an optional number
IndexOf(S, id) ==
    IF getProvider(S, id) = 0 THEN <<>> ELSE S.providers[getProvider(S, id)].currentKeyIndex

RotateApiKey(providerId) ==
    /\ Len(rotLog.idx) < MaxRotations \/ rotLog.pid # providerId
    /\ LET r == rotateApiKey(Settings, providerId)
           log == IF rotLog.pid = providerId /\ rotLog.idx # <<>> THEN rotLog
                  ELSE [pid |-> providerId,
                        start |-> OrZero(IndexOf(Settings, providerId)),
                        idx |-> <<>>, rets |-> <<>>]
       IN  /\ Commit(r, "rotateApiKey", <<providerId>>)
           /\ rotLog' = [log EXCEPT !.idx = Append(@, OrZero(IndexOf(r.S, providerId))),
                                    !.rets = Append(@, r.ret.value)]
    /\ UNCHANGED <<nextId, secretServiceSet, secretStorage, client, transport, calls, naming, parsing,
                   cache, terminal>>

(***************************************************************************)
(* AIService and ResponseParser: state                                     *)
(***************************************************************************)
\* no generateFileName call has been made
NamingIdle == [pc |-> "idle"]

\* no response has been given to the parser
ParsingIdle == [pc |-> "idle"]

\* SecretService.cache = new Map(): no id has an entry
EmptyCache == <<>>

\* bound on the WebSocket objects one terminal instance creates
MaxSockets == 4

\* the fields of a TerminalInstance after its constructor, the WebSocket objects it
\* has created (with their readyState), and its two timers. ws is the position of
\* this.ws among the sockets, 0 for null.
\* reconnectTimeout and connectionTimeout tell whether the timer the field refers
\* to is pending; connectionTimers counts the pending connection timers, those the
\* field no longer refers to included. initSockets are the sockets initialize()
\* waits for. sinceOpen and sinceReset count the reconnects started since the last
\* open, and since the last open or handleServerCrash; createdAfterDestroy records
\* a socket created by a destroyed instance.
TerminalCreated ==
    [isInitialized |-> FALSE, isDestroyed |-> FALSE, ws |-> 0, sockets |-> <<>>,
     initSockets |-> {}, reconnectAttempts |-> 0, reconnectTimeout |-> FALSE,
     connectionTimeout |-> FALSE, connectionTimers |-> 0,
     sinceOpen |-> 0, sinceReset |-> 0, createdAfterDestroy |-> FALSE]

(***************************************************************************)
(* AIClient: state                                                         *)
(***************************************************************************)
\* calls issued on one client: call c owns AbortController c and callbacks c
MaxCalls == 2

\* chunk and thinking events the transport delivers in all
MaxEvents == 2

Calls == 1..MaxCalls

\* abortController = null
NoController == 0

\* a subscription of call c's handler to the transport's events of one kind
Listener(c, kind) == [call |-> c, kind |-> kind]

\* a call not yet issued: its promise and the invocations of its callbacks
NewCall ==
    [kind |-> "none", pc |-> "idle", outcome |-> "pending", cancelled |-> FALSE,
     onStart |-> 0, onChunk |-> 0, onThinking |-> 0, onComplete |-> 0, onError |-> 0]

\* the fields of a constructed AIClient; aborted holds the aborted signals
ClientIdle ==
    [serverManager |-> FALSE, abortController |-> NoController,
     llmCleanupFns |-> <<>>, aborted |-> {}]

\* the transport: registered listeners and the state of its stream
TransportIdle == [listeners |-> {}, stream |-> "none"]

CallsIdle == [c \in Calls |-> NewCall]

\* the client, its transport and its calls as one value W
World == [client |-> client, transport |-> transport, calls |-> calls]

InFlight(call) == call.kind # "none" /\ call.outcome = "pending"

(***************************************************************************)
(* AIClient: operations                                                    *)
(***************************************************************************)
\* llmClient.onX(handler) and the push of the unsubscribe function it returns
subscribe(W, c, kind) ==
    [W EXCEPT !.transport.listeners = @ \cup {Listener(c, kind)},
              !.client.llmCleanupFns = Append(@, Listener(c, kind))]

\* calling the unsubscribe functions removes their listeners from the transport
unsubscribeAll(tr, fns) ==
    [tr EXCEPT !.listeners = @ \ {fns[i] : i \in 1..Len(fns)}]

cleanupLLMListeners(W) ==
    [W EXCEPT !.transport = unsubscribeAll(@, W.client.llmCleanupFns),
              !.client.llmCleanupFns = <<>>]

\* llmClient.startStream / llmClient.cancelStream
startStream(W) == [W EXCEPT !.transport.stream = "active"]

cancelStream(W) ==
    [W EXCEPT !.transport.stream = IF @ = "active" THEN "cancelled" ELSE @]

\* callbacks.onX() of call c
Invoke(W, c, callback) == [W EXCEPT !.calls[c][callback] = @ + 1]

\* the promise of call c settles
Settle(W, c, outcome) ==
    [W EXCEPT !.calls[c].outcome = outcome, !.calls[c].pc = "done"]

\* request: the entry, up to the await of fetchWithTimeout
requestEntry(W, c) ==
    [W EXCEPT !.client.abortController = c,
              !.calls[c].kind = "request", !.calls[c].pc = "fetch"]

\* request: its promise settles, the finally block having run
requestExit(W, c, outcome) ==
    [Settle(W, c, outcome) EXCEPT !.client.abortController = NoController]

\* request: RequestBuilder.build or EndpointNormalizer.normalize throws
requestBuildThrows(W, c) == requestExit(requestEntry(W, c), c, "rejected")

\* request: fetchWithTimeout settles with result, see FetchResults
requestAfterFetch(W, c, result) ==
    CASE result = "ok" -> [W EXCEPT !.calls[c].pc = "json"]
      [] result = "httpError" -> [W EXCEPT !.calls[c].pc = "errjson"]
      [] OTHER -> requestExit(W, c, "rejected")

\* request: response.json() settles and ResponseParser.parse runs
requestAfterJson(W, c, result) ==
    requestExit(W, c, IF result = "ok" THEN "resolved" ELSE "rejected")

\* request: handleErrorResponse throws whatever the error body was
requestAfterErrorJson(W, c) == requestExit(W, c, "rejected")

\* requestStream: the entry, up to the await of ensureServer
requestStreamEntry(W, c) ==
    IF ~W.client.serverManager
    THEN Settle([W EXCEPT !.calls[c].kind = "stream"], c, "rejected")
    ELSE [W EXCEPT !.calls[c].kind = "stream", !.calls[c].pc = "ensure"]

\* requestStream: the catch block
requestStreamCatch(W, c) ==
    Settle(Invoke(cleanupLLMListeners(W), c, "onError"), c, "resolved")

\* requestStream: from onStart to the await of the completion promise
requestStreamSubscribe(W, c) ==
    subscribe(subscribe(subscribe(subscribe(
        cleanupLLMListeners(Invoke(W, c, "onStart")),
        c, "chunk"), c, "thinking"), c, "complete"), c, "error")

\* requestStream: ensureServer settles; how is one of SetupResults
requestStreamAfterEnsure(W, c, how) ==
    CASE how = "setupThrows" -> requestStreamCatch(W, c)
      [] how = "startThrows" -> requestStreamCatch(requestStreamSubscribe(W, c), c)
      [] OTHER -> [startStream(requestStreamSubscribe(W, c)) EXCEPT !.calls[c].pc = "wait"]

\* the handlers requestStream registers
chunkHandler(W, c) == Invoke(W, c, "onChunk")

thinkingHandler(W, c) == Invoke(W, c, "onThinking")

completeHandler(W, c) ==
    Settle(cleanupLLMListeners(Invoke(W, c, "onComplete")), c, "resolved")

\* the error handler rejects the completion promise, which the catch block receives
errorHandler(W, c) ==
    requestStreamCatch(cleanupLLMListeners(Invoke(W, c, "onError")), c)

\* cancel without the listener cleanup when no abort handle is held
cancelOnlyHeld(W, streamThrows) ==
    IF W.client.abortController = NoController THEN W
    ELSE cleanupLLMListeners(
            [W EXCEPT !.client.aborted = @ \cup {W.client.abortController},
                      !.client.abortController = NoController])

\* cancel; streamThrows: llmClient.cancelStream throws
cancel(W, streamThrows) ==
    LET W1 == IF W.client.abortController # NoController
              THEN [W EXCEPT !.client.aborted = @ \cup {W.client.abortController},
                             !.client.abortController = NoController]
              ELSE W
        W2 == IF W1.client.serverManager /\ ~streamThrows THEN cancelStream(W1) ELSE W1
    IN  cleanupLLMListeners(W2)

isRequestInProgress(W) ==
    W.client.abortController # NoController \/ Len(W.client.llmCleanupFns) > 0

(***************************************************************************)
(* AIClient: inputs and actions                                            *)
(***************************************************************************)
\* how fetchWithTimeout settles: a response, or NetworkError, TimeoutError, abort
FetchResults == {"ok", "httpError", "networkError", "timeout", "abort"}

\* how response.json() and ResponseParser.parse end
JsonResults == {"ok", "invalid"}

\* how the setup of a stream ends
SetupResults == {"started", "setupThrows", "startThrows"}

EventKinds == {"chunk", "thinking", "complete", "error"}

\* commit the outcome W of the client operation op
ClientCommit(W, op, args) ==
    /\ client' = W.client
    /\ transport' = W.transport
    /\ calls' = W.calls
    /\ lastOp' = [op |-> op, args |-> args, threw |-> FALSE, ret |-> NoResult]
    /\ UNCHANGED <<providers, featureBindings, nextId, secretServiceSet,
                   secretStorage, saved, rotLog, naming, parsing,
                   cache, terminal>>

\* calls are issued in the order of their numbers
Issuable(c) == calls[c].kind = "none" /\ \A d \in 1..(c - 1) : calls[d].kind # "none"

Request(c, buildThrows) ==
    /\ Issuable(c)
    /\ ClientCommit(IF buildThrows THEN requestBuildThrows(World, c)
                    ELSE requestEntry(World, c), "request", <<>>)

\* an aborted signal rejects the pending fetch; otherwise the network decides
FetchSettles(c, result) ==
    /\ calls[c].pc = "fetch"
    /\ (result = "abort") = (c \in client.aborted)
    /\ ClientCommit(requestAfterFetch(World, c, result), "fetch", <<>>)

JsonSettles(c, result) ==
    /\ calls[c].pc = "json"
    /\ ClientCommit(requestAfterJson(World, c, result), "json", <<>>)

ErrorJsonSettles(c) ==
    /\ calls[c].pc = "errjson"
    /\ ClientCommit(requestAfterErrorJson(World, c), "handleErrorResponse", <<>>)

RequestStream(c) ==
    /\ Issuable(c)
    /\ ClientCommit(requestStreamEntry(World, c), "requestStream", <<>>)

EnsureServerSettles(c, how) ==
    /\ calls[c].pc = "ensure"
    /\ ClientCommit(requestStreamAfterEnsure(World, c, how), "ensureServer", <<>>)

\* the chunk and thinking events delivered to the calls 1..n
RECURSIVE Delivered(_)
Delivered(n) ==
    IF n = 0 THEN 0 ELSE calls[n].onChunk + calls[n].onThinking + Delivered(n - 1)

\* the transport delivers an event of one kind to a registered listener
Deliver(c, kind) ==
    /\ Listener(c, kind) \in transport.listeners
    /\ kind \in {"chunk", "thinking"} => Delivered(MaxCalls) < MaxEvents
    /\ ClientCommit(CASE kind = "chunk" -> chunkHandler(World, c)
                      [] kind = "thinking" -> thinkingHandler(World, c)
                      [] kind = "complete" -> completeHandler(World, c)
                      [] OTHER -> errorHandler(World, c),
                    "deliver", <<>>)

\* the calls in flight become cancelled calls
MarkCancelled(W) ==
    [W EXCEPT !.calls = [c \in Calls |->
        [W.calls[c] EXCEPT !.cancelled = @ \/ InFlight(W.calls[c])]]]

\* cancel(); recorded: whether a call was in flight, whether a cancel() preceded
Cancel(streamThrows) ==
    /\ ClientCommit(MarkCancelled(cancel(World, streamThrows)), "cancel",
                    <<\E c \in Calls : InFlight(calls[c]), lastOp.op = "cancel">>)

(***************************************************************************)
(* AIClient: option validation and the Authorization header                *)
(***************************************************************************)
\* String.prototype.trim on a key value: the whitespace-only key becomes empty
TrimKey(v) == IF v = " " THEN KEmpty ELSE v

\* the test hasValidApiKey applies to one KeyConfig
KeyConfigLooksValid(kc) ==
    \/ kc.mode = "shared" /\ Truthy(kc.secretId)
    \/ kc.mode = "local" /\ Truthy(kc.localValue) /\ TrimKey(kc.localValue) # KEmpty

hasValidApiKey(provider) ==
    IF provider.keyConfig # NoKeyConfig /\ KeyConfigLooksValid(provider.keyConfig)
    THEN TRUE
    ELSE IF Len(provider.keyConfigs) > 0
         THEN \E i \in 1..Len(provider.keyConfigs) :
                 KeyConfigLooksValid(provider.keyConfigs[i])
         ELSE FALSE

\* validateOptions: TRUE when it returns, FALSE when it throws
validateOptions(provider, model) ==
    /\ hasValidApiKey(provider)
    /\ ~(provider.endpoint = <<>> \/ Trim(provider.endpoint) = <<>>)
    /\ ~(model.name = <<>> \/ Trim(model.name) = <<>>)

\* getCurrentApiKey: the key put in the header, or a TypeError when
\* keyConfigs[index] is undefined
getCurrentApiKey(provider) ==
    IF Len(provider.keyConfigs) > 0
    THEN LET keyConfig == KeyAt(provider.keyConfigs, OrZero(provider.currentKeyIndex)) IN
         IF keyConfig = NoKeyConfig THEN [tag |-> "TypeError"]
         ELSE IF keyConfig.mode = "local" /\ Truthy(keyConfig.localValue)
              THEN Key(keyConfig.localValue)
              ELSE Key(KEmpty)
    ELSE IF provider.keyConfig # NoKeyConfig
         THEN IF provider.keyConfig.mode = "local" /\ Truthy(provider.keyConfig.localValue)
              THEN Key(provider.keyConfig.localValue)
              ELSE Key(KEmpty)
         ELSE Key(KEmpty)

\* buildHeaders and the send that carries them: the Authorization value after
\* 'Bearer ', or the error that prevents the send
buildHeaders(provider) ==
    LET k == getCurrentApiKey(provider) IN
    IF k.tag = "TypeError" THEN k ELSE [tag |-> "send", authorization |-> k.value]

\* the key configurations a client is constructed with
AuthKeyKinds == KeyKinds \cup {[mode |-> "local", secretId |-> KUndef, localValue |-> " "]}

RECURSIVE KeyLists(_)
KeyLists(n) ==
    IF n = 0 THEN {<<>>}
    ELSE KeyLists(n - 1) \cup
         {Append(l, k) : l \in {ll \in KeyLists(n - 1) : Len(ll) = n - 1}, k \in AuthKeyKinds}

\* options.provider and options.model of the constructor
AuthProviders ==
    {[id |-> 1, name |-> <<"P">>, endpoint |-> e, keyConfig |-> k, keyConfigs |-> l,
      currentKeyIndex |-> c,
      models |-> <<[id |-> 2, name |-> n, temperature |-> 7, topP |-> 10,
                    maxOutputTokens |-> <<>>]>>] :
        e \in {<<>>, <<" ">>, <<"u">>}, k \in AuthKeyKinds \cup {NoKeyConfig},
        l \in KeyLists(MaxKeys - 1),
        c \in {<<>>} \cup {<<i>> : i \in 0..(MaxKeys - 2)},
        n \in {<<>>, <<"m">>}}

\* new AIClient(options)
Construct ==
    /\ lastOp.op = "init"
    /\ lastOp' = [op |-> "construct", args |-> <<>>,
                  threw |-> ~validateOptions(providers[1], providers[1].models[1]),
                  ret |-> NoResult]
    /\ UNCHANGED <<providers, featureBindings, nextId, secretServiceSet, secretStorage,
                   saved, rotLog, client, transport, calls, naming, parsing,
                   cache, terminal>>

\* a call on the constructed client reaches its send (fetch or startStream)
Send(op) ==
    /\ lastOp.op # "init"
    /\ ~(lastOp.op = "construct" /\ lastOp.threw)
    /\ LET h == buildHeaders(providers[1]) IN
       lastOp' = [op |-> op, args |-> <<>>, threw |-> h.tag # "send", ret |-> h]
    /\ UNCHANGED <<providers, featureBindings, nextId, secretServiceSet, secretStorage,
                   saved, rotLog, client, transport, calls, naming, parsing,
                   cache, terminal>>

(***************************************************************************)
(* AIService (naming): request building and error classification          *)
(***************************************************************************)
ValidEfforts == {"low", "medium", "high"}

\* model.reasoningEffort as the settings can hold it: absent, empty, valid, other
EffortInputs == {KUndef, KEmpty, "low", "medium", "high", "extreme"}

\* model.apiFormat
ApiFormatInputs == {KUndef, "chat-completions", "responses"}

\* what the lower-cased error message of a response contains
Keywords == {"unsupported", "not supported", "invalid endpoint", "reasoning"}

\* error.message of an error body: absent, empty, or a text containing keywords
NoMessage == [text |-> "undefined", words |-> {}]

MessageInputs ==
    {NoMessage, [text |-> "empty", words |-> {}]}
        \cup {[text |-> "text", words |-> w] : w \in SUBSET Keywords}

\* JavaScript truthiness of a message
MessageTruthy(message) == message.text = "text"

\* originalMessage.toLowerCase().includes(word)
Includes(message, word) == word \in message.words

StatusInputs == {200, 400, 401, 403, 404, 422, 429, 500}

\* the HTTP responses: status, error.type, error.code, error.message; a 200
\* response parses to a file name or not
ResponseInputs ==
    {[status |-> st, type |-> ty, code |-> co, message |-> me, parses |-> pa] :
        st \in StatusInputs, ty \in {KUndef, "t"}, co \in {KUndef, "c"},
        me \in MessageInputs, pa \in BOOLEAN}

\* a || b on strings and undefined
OrElse(a, b) == IF Truthy(a) THEN a ELSE b

PlainError(message) == [kind |-> "Error", message |-> message]

UnsupportedAPIFormatError(requestedFormat, suggestedFormat, statusCode) ==
    [kind |-> "UnsupportedAPIFormatError",
     message |-> <<"unsupportedApiFormat", requestedFormat, suggestedFormat>>,
     requestedFormat |-> requestedFormat, suggestedFormat |-> suggestedFormat,
     statusCode |-> statusCode]

InvalidReasoningEffortError(providedValue) ==
    [kind |-> "InvalidReasoningEffortError",
     message |-> <<"invalidReasoningEffort", providedValue>>,
     providedValue |-> providedValue]

ResponsesAPIError(statusCode, message, errorType, originalMessage) ==
    [kind |-> "ResponsesAPIError", message |-> message, statusCode |-> statusCode,
     errorType |-> errorType, originalMessage |-> originalMessage]

getAPIFormat(model) == OrElse(model.apiFormat, "chat-completions")

\* mutant: the reasoning effort is put in the request without being validated
buildResponsesRequestUnchecked(model) ==
    [kind |-> "request", effort |-> OrElse(model.reasoningEffort, "medium")]

\* buildResponsesRequest: the request, or the error it throws
buildResponsesRequest(model) ==
    LET reasoningEffort == OrElse(model.reasoningEffort, "medium") IN
    IF reasoningEffort \notin ValidEfforts
    THEN InvalidReasoningEffortError(reasoningEffort)
    ELSE [kind |-> "request", effort |-> reasoningEffort]

buildChatCompletionsRequest(model) == [kind |-> "request", effort |-> KUndef]

buildRequest(model, apiFormat) ==
    IF apiFormat = "responses" THEN buildResponsesRequest(model)
    ELSE buildChatCompletionsRequest(model)

\* handleResponsesAPIError: the error it throws, NoResult when it returns
handleResponsesAPIError(response, requestBody) ==
    IF response.status = 404
    THEN UnsupportedAPIFormatError("responses", "chat-completions", response.status)
    ELSE IF response.status = 400
    THEN LET errorType == OrElse(response.type, response.code)
             originalMessage == response.message
         IN  IF MessageTruthy(originalMessage)
                /\ (Includes(originalMessage, "unsupported")
                    \/ Includes(originalMessage, "not supported")
                    \/ Includes(originalMessage, "invalid endpoint"))
             THEN UnsupportedAPIFormatError("responses", "chat-completions",
                                            response.status)
             ELSE IF MessageTruthy(originalMessage) /\ Includes(originalMessage, "reasoning")
             THEN InvalidReasoningEffortError(OrElse(requestBody.effort, "unknown"))
             ELSE ResponsesAPIError(response.status,
                     <<"responsesApiError", response.status,
                       IF MessageTruthy(originalMessage) THEN originalMessage
                       ELSE [text |-> "Unknown error", words |-> {}]>>,
                     errorType, originalMessage)
    ELSE NoResult

\* handleHttpError: the error it throws
handleHttpError(response, apiFormat, requestBody) ==
    LET special == IF apiFormat = "responses"
                   THEN handleResponsesAPIError(response, requestBody)
                   ELSE NoResult
    IN  IF special # NoResult THEN special
        ELSE PlainError(<<"requestFailed", response.status, response.message>>)

\* handleRequestError: the error generateFileName throws for a caught error
handleRequestError(error) ==
    CASE error.kind = "UnsupportedAPIFormatError" ->
            PlainError(<<error.message, "unsupportedApiFormatHint">>)
      [] error.kind = "InvalidReasoningEffortError" -> error
      [] error.kind = "ResponsesAPIError" ->
            PlainError(<<error.message, "responsesApiErrorHint">>)
      [] OTHER -> error

\* generateFileName up to the await in sendRequest: model is the bound model,
\* configOk whether validateProviderConfig returns
generateFileNameEntry(model, configOk) ==
    LET apiFormat == getAPIFormat(model)
        requestBody == buildRequest(model, apiFormat)
        call == [pc |-> "done", model |-> model, apiFormat |-> apiFormat,
                 built |-> FALSE, sends |-> 0, response |-> NoResult,
                 thrown |-> NoResult, error |-> NoResult, requestBody |-> NoResult]
    IN  IF ~configOk
        THEN [call EXCEPT !.error = PlainError(<<"providerApiKeyNotConfigured">>)]
        ELSE IF requestBody.kind # "request"
        THEN [call EXCEPT !.built = TRUE, !.error = requestBody]
        ELSE [call EXCEPT !.pc = "await", !.built = TRUE, !.sends = 1,
                          !.requestBody = requestBody]

\* generateFileName from the response on: sendRequest returns or throws
generateFileNameResume(call, response) ==
    IF response.status # 200
    THEN LET thrown == handleHttpError(response, call.apiFormat, call.requestBody)
         IN  [call EXCEPT !.pc = "done", !.response = response, !.thrown = thrown,
                          !.error = handleRequestError(thrown)]
    ELSE IF ~response.parses
    THEN [call EXCEPT !.pc = "done", !.response = response,
                      !.thrown = PlainError(<<"responseFormatError">>),
                      !.error = handleRequestError(PlainError(<<"responseFormatError">>))]
    ELSE [call EXCEPT !.pc = "done", !.response = response]

\* generateFileName: the request times out
generateFileNameTimeout(call) ==
    [call EXCEPT !.pc = "done", !.thrown = PlainError(<<"requestTimeout">>),
                 !.error = handleRequestError(PlainError(<<"requestTimeout">>))]

NamingCommit(call, op) ==
    /\ naming' = call
    /\ lastOp' = [op |-> op, args |-> <<>>, threw |-> call.error # NoResult,
                  ret |-> NoResult]
    /\ UNCHANGED <<providers, featureBindings, nextId, secretServiceSet, secretStorage,
                   saved, rotLog, client, transport, calls, parsing,
                   cache, terminal>>

GenerateFileName(model, configOk) ==
    /\ naming.pc = "idle"
    /\ NamingCommit(generateFileNameEntry(model, configOk), "generateFileName")

ResponseArrives(response) ==
    /\ naming.pc = "await"
    /\ NamingCommit(generateFileNameResume(naming, response), "response")

RequestTimesOut ==
    /\ naming.pc = "await"
    /\ NamingCommit(generateFileNameTimeout(naming), "timeout")

(***************************************************************************)
(* Specifications of the ConfigManager                                     *)
(***************************************************************************)

InitOp == [op |-> "init", args |-> <<>>, threw |-> FALSE, ret |-> NoResult]

\* settings as DEFAULT_SETTINGS has them: no provider, no binding
Init ==
    /\ providers = <<>>
    /\ featureBindings = [f \in {} |-> NoResult]
    /\ nextId = 1
    /\ secretServiceSet = FALSE
    /\ secretStorage = [s \in SecretIds |-> KNull]
    /\ lastOp = InitOp
    /\ saved = FALSE
    /\ rotLog = EmptyLog
    /\ client = ClientIdle
    /\ transport = TransportIdle
    /\ calls = CallsIdle
    /\ naming = NamingIdle
    /\ parsing = ParsingIdle
    /\ cache = EmptyCache
    /\ terminal = TerminalCreated

Next ==
    \/ \E provider \in ProviderInputs : AddProvider(provider)
    \/ \E id \in Ids, updates \in ProviderUpdateInputs : UpdateProvider(id, updates)
    \/ \E id \in Ids : DeleteProvider(id)
    \/ \E id \in Ids, model \in ModelInputs : AddModel(id, model)
    \/ \E id \in Ids, m \in Ids, updates \in ModelUpdateInputs : UpdateModel(id, m, updates)
    \/ \E id \in Ids, m \in Ids : DeleteModel(id, m)
    \/ \E id \in Ids, from \in 0..1, to \in 0..1 : ReorderModel(id, from, to)
    \/ \E f \in FeatureInputs, b \in BindingInputs : SetFeatureBinding(f, b)
    \/ \E f \in FeatureInputs : ResolveFeatureConfig(f)

Spec == Init /\ [][Next]_vars

\* key selection: the settings hold one provider, created by addProvider
KeyProvider ==
    [name |-> <<"P">>, endpoint |-> <<"u">>, keyConfig |-> NoKeyConfig,
     keyConfigs |-> <<>>, currentKeyIndex |-> <<>>]

InitKeys ==
    /\ providers = addProvider([providers |-> <<>>, featureBindings |-> <<>>], 1,
                               KeyProvider).S.providers
    /\ featureBindings = [f \in {} |-> NoResult]
    /\ nextId = 2
    /\ secretServiceSet = FALSE
    /\ secretStorage = [s \in SecretIds |-> KNull]
    /\ lastOp = InitOp
    /\ saved = FALSE
    /\ rotLog = EmptyLog
    /\ client = ClientIdle
    /\ transport = TransportIdle
    /\ calls = CallsIdle
    /\ naming = NamingIdle
    /\ parsing = ParsingIdle
    /\ cache = EmptyCache
    /\ terminal = TerminalCreated

NextKeys ==
    \/ \E updates \in KeyUpdateInputs(providers[1].keyConfigs) : UpdateProvider(1, updates)
    \/ SetSecretService
    \/ \E id \in SecretIds, value \in {KNull, "sv"} : SecretChange(id, value)
    \/ \E id \in 1..2 : GetApiKey(id)
    \/ \E id \in 1..2 : RotateApiKey(id)

SpecKeys == InitKeys /\ [][NextKeys]_vars

\* the operations that store models: addModel, updateModel, and updateProvider
\* with a model list among its updates
NextModels ==
    \/ \E provider \in ProviderInputs : AddProvider(provider)
    \/ \E id \in Ids, updates \in ModelListUpdateInputs : UpdateProvider(id, updates)
    \/ \E id \in Ids, model \in ModelInputs : AddModel(id, model)
    \/ \E id \in Ids, m \in Ids, updates \in ModelUpdateInputs : UpdateModel(id, m, updates)

SpecModels == Init /\ [][NextModels]_vars

(***************************************************************************)
(* Specifications of the AIClient                                          *)
(***************************************************************************)
\* a client constructed with or without a ServerManager, no call issued
InitClient ==
    /\ providers = <<>>
    /\ featureBindings = [f \in {} |-> NoResult]
    /\ nextId = 1
    /\ secretServiceSet = FALSE
    /\ secretStorage = [s \in SecretIds |-> KNull]
    /\ lastOp = InitOp
    /\ saved = FALSE
    /\ rotLog = EmptyLog
    /\ \E sm \in BOOLEAN : client = [ClientIdle EXCEPT !.serverManager = sm]
    /\ transport = TransportIdle
    /\ calls = CallsIdle
    /\ naming = NamingIdle
    /\ parsing = ParsingIdle
    /\ cache = EmptyCache
    /\ terminal = TerminalCreated

NextClient ==
    \/ \E c \in Calls, buildThrows \in BOOLEAN : Request(c, buildThrows)
    \/ \E c \in Calls, result \in FetchResults : FetchSettles(c, result)
    \/ \E c \in Calls, result \in JsonResults : JsonSettles(c, result)
    \/ \E c \in Calls : ErrorJsonSettles(c)
    \/ \E c \in Calls : RequestStream(c)
    \/ \E c \in Calls, how \in SetupResults : EnsureServerSettles(c, how)
    \/ \E c \in Calls, kind \in EventKinds : Deliver(c, kind)
    \/ \E streamThrows \in BOOLEAN : Cancel(streamThrows)

SpecClient == InitClient /\ [][NextClient]_vars

\* a client constructed for any provider and model, the secret store holding s1
InitAuth ==
    /\ \E p \in AuthProviders : providers = <<p>>
    /\ featureBindings = [f \in {} |-> NoResult]
    /\ nextId = 3
    /\ secretServiceSet = TRUE
    /\ secretStorage = [s \in SecretIds |-> "sv"]
    /\ lastOp = InitOp
    /\ saved = FALSE
    /\ rotLog = EmptyLog
    /\ client = [ClientIdle EXCEPT !.serverManager = TRUE]
    /\ transport = TransportIdle
    /\ calls = CallsIdle
    /\ naming = NamingIdle
    /\ parsing = ParsingIdle
    /\ cache = EmptyCache
    /\ terminal = TerminalCreated

NextAuth ==
    \/ Construct
    \/ \E op \in {"request", "requestStream"} : Send(op)

SpecAuth == InitAuth /\ [][NextAuth]_vars

\* one generateFileName call of an AIService
NextNaming ==
    \/ \E apiFormat \in ApiFormatInputs, effort \in EffortInputs, configOk \in BOOLEAN :
          GenerateFileName([apiFormat |-> apiFormat, reasoningEffort |-> effort], configOk)
    \/ \E response \in ResponseInputs : ResponseArrives(response)
    \/ RequestTimesOut

SpecNaming == Init /\ [][NextNaming]_vars

\* what the environment of call c owes it: the fetch and the body read settle (the
\* fetch races a timer), ensureServer settles, and the transport ends a stream by
\* a complete or an error event to the listener registered for it
Progress(c) ==
    \/ \E result \in FetchResults : FetchSettles(c, result)
    \/ \E result \in JsonResults : JsonSettles(c, result)
    \/ ErrorJsonSettles(c)
    \/ \E how \in SetupResults : EnsureServerSettles(c, how)
    \/ Deliver(c, "complete")
    \/ Deliver(c, "error")

FairSpecClient == SpecClient /\ \A c \in Calls : WF_vars(Progress(c))



(***************************************************************************)
(* Claims about the ConfigManager                                          *)
(***************************************************************************)
ProviderIds == {providers[i].id : i \in 1..Len(providers)}

ProviderWithId(id) == CHOOSE q \in {providers[i] : i \in 1..Len(providers)} : q.id = id

ModelIds(provider) == {provider.models[j].id : j \in 1..Len(provider.models)}

Minimum(S) == CHOOSE x \in S : \A y \in S : x <= y

\* C1 as stated: after deleteProvider(id) succeeds, every entry of featureBindings
\* has a providerId that is the id of an existing provider.
C1_Original ==
    (lastOp.op = "deleteProvider" /\ ~lastOp.threw) =>
        \A f \in DOMAIN featureBindings : featureBindings[f].providerId \in ProviderIds

\* C1 amended: a successful deleteProvider(id) resets to its default, or removes when
\* the feature has no default, exactly the bindings that pointed at id and leaves the
\* other bindings as they were; afterwards every binding whose providerId is not the
\* empty id of the default binding names an existing provider.
C1_DeleteProviderResetsBindings ==
    [][(lastOp'.op = "deleteProvider" /\ ~lastOp'.threw) =>
        LET id == lastOp'.args[1] IN
        /\ id \in ProviderIds
        /\ \A f \in FeatureSet :
              IF f \in DOMAIN featureBindings /\ featureBindings[f].providerId = id
              THEN IF f \in DOMAIN DEFAULT_FEATURE_BINDINGS
                   THEN /\ f \in DOMAIN featureBindings'
                        /\ featureBindings'[f] = DEFAULT_FEATURE_BINDINGS[f]
                   ELSE f \notin DOMAIN featureBindings'
              ELSE /\ (f \in DOMAIN featureBindings') = (f \in DOMAIN featureBindings)
                   /\ f \in DOMAIN featureBindings => featureBindings'[f] = featureBindings[f]
        /\ \A f \in DOMAIN featureBindings' :
              \/ featureBindings'[f].providerId = EmptyId
              \/ \E i \in 1..Len(providers') : providers'[i].id = featureBindings'[f].providerId
    ]_vars

\* C1 witness: a provider bound to "naming" was deleted, the binding is back at its
\* default and "translation", bound to the same provider, is gone, while another
\* provider is still there
C1_Witness ==
    /\ lastOp.op = "deleteProvider" /\ ~lastOp.threw
    /\ "naming" \in DOMAIN featureBindings
    /\ featureBindings["naming"] = DEFAULT_FEATURE_BINDINGS["naming"]
    /\ "translation" \notin DOMAIN featureBindings
    /\ Len(providers) = 1

\* C5: in every reachable settings state resolveFeatureConfig(feature) is undefined
\* exactly when the feature has no binding, or the bound providerId names no
\* provider, or the bound modelId names no model of that provider; otherwise it is
\* the bound provider, the bound model of that provider and the binding's prompt
\* template. The call itself never raises and changes nothing.
C5_ResolveFeatureConfig ==
    /\ \A f \in FeatureSet :
          LET r == resolveFeatureConfig(Settings, f)
              unbound == f \notin DOMAIN featureBindings
              noProvider == featureBindings[f].providerId \notin ProviderIds
              noModel == featureBindings[f].modelId \notin
                            ModelIds(ProviderWithId(featureBindings[f].providerId))
          IN  /\ (r = NoResult) <=> (unbound \/ noProvider \/ noModel)
              /\ r # NoResult =>
                    /\ r.provider = ProviderWithId(featureBindings[f].providerId)
                    /\ r.model.id = featureBindings[f].modelId
                    /\ \E j \in 1..Len(r.provider.models) : r.provider.models[j] = r.model
                    /\ r.promptTemplate = featureBindings[f].promptTemplate
    /\ lastOp.op = "resolveFeatureConfig" =>
          /\ ~lastOp.threw /\ ~saved
          /\ lastOp.ret = resolveFeatureConfig(Settings, lastOp.args[1])

\* C5 witness: resolveFeatureConfig returned undefined for a binding whose provider
\* exists and whose model is gone
C5_Witness ==
    /\ lastOp.op = "resolveFeatureConfig"
    /\ lastOp.ret = NoResult
    /\ lastOp.args[1] \in DOMAIN featureBindings
    /\ featureBindings[lastOp.args[1]].providerId \in ProviderIds


(***************************************************************************)
(* Claims about key selection and rotation                                 *)
(***************************************************************************)
\* the entry resolves to a usable key
Resolves(keyConfig) == Truthy(resolveKeyValue(keyConfig))

\* 0-based indices of the entries of keyConfigs that resolve
ResolvingIndices(keyConfigs) ==
    {n \in 0..(Len(keyConfigs) - 1) : Resolves(KeyAt(keyConfigs, n))}

\* the first resolving index met going cyclically from index c + first
FirstResolvingFrom(keyConfigs, c, first) ==
    LET N == Len(keyConfigs)
        d == Minimum({e \in first..(first + N - 1) :
                         ((c + e) % N) \in ResolvingIndices(keyConfigs)})
    IN  (c + d) % N

\* C2: for a provider whose keyConfigs has N > 1 entries of which R >= 2 resolve,
\* each call of a run of consecutive rotateApiKey calls returns the key of, and
\* commits as currentKeyIndex, the next resolving entry in cyclic index order after
\* the index current before the call; the first R calls of the run return R
\* different entries; an entry that does not resolve is never returned or committed.
C2_RotationCycle ==
    (rotLog.idx # <<>> /\ rotLog.pid \in ProviderIds) =>
        LET p == ProviderWithId(rotLog.pid)
            kcs == p.keyConfigs
            R == Cardinality(ResolvingIndices(kcs))
            n == Len(rotLog.idx)
            before(j) == IF j = 1 THEN rotLog.start ELSE rotLog.idx[j - 1]
        IN  (Len(kcs) > 1 /\ R >= 2) =>
               /\ \A j \in 1..n :
                     /\ rotLog.idx[j] \in ResolvingIndices(kcs)
                     /\ rotLog.idx[j] = FirstResolvingFrom(kcs, before(j), 1)
                     /\ rotLog.rets[j] = resolveKeyValue(KeyAt(kcs, rotLog.idx[j]))
               /\ \A a, b \in 1..n : (a < b /\ b <= R) => rotLog.idx[a] # rotLog.idx[b]
               /\ n > R => rotLog.idx[R + 1] = rotLog.idx[1]
               /\ p.currentKeyIndex = <<rotLog.idx[n]>>

\* C2 witness: three keys of which the middle one does not resolve; a run of three
\* rotations has returned the two resolving keys and then the first of them again
C2_Witness ==
    /\ rotLog.idx # <<>> /\ rotLog.pid \in ProviderIds
    /\ Len(ProviderWithId(rotLog.pid).keyConfigs) = 3
    /\ ResolvingIndices(ProviderWithId(rotLog.pid).keyConfigs) = {0, 2}
    /\ rotLog.start = 0
    /\ rotLog.idx = <<2, 0, 2>>

\* the provider's credential configuration holds exactly one KeyConfig: a key list
\* of one entry, or no key list and a single keyConfig
ExactlyOneKeyConfig(p) ==
    \/ Len(p.keyConfigs) = 1
    \/ Len(p.keyConfigs) = 0 /\ p.keyConfig # NoKeyConfig

\* a returned value with every unusable value (undefined, empty) read as undefined
Usable(v) == IF Truthy(v) THEN v ELSE KUndef

\* C3: for a provider with exactly one KeyConfig, rotateApiKey returns the value
\* getApiKey returns for it (that KeyConfig's key, or undefined when it does not
\* resolve, an empty value counting as undefined) and changes nothing.
C3_SingleKeyRotate ==
    [][(lastOp'.op = "rotateApiKey" /\ lastOp'.args[1] \in ProviderIds
            /\ ExactlyOneKeyConfig(ProviderWithId(lastOp'.args[1]))) =>
        /\ Usable(lastOp'.ret.value) = Usable(getApiKey(Settings, lastOp'.args[1]).ret.value)
        /\ providers' = providers
        /\ ~saved'
    ]_vars

\* C4: for a provider with a non-empty keyConfigs list, getApiKey returns the key at
\* currentKeyIndex when it resolves, changing nothing and not saving; otherwise the
\* first resolving key found scanning forward (cyclically) from currentKeyIndex,
\* committing that entry's index and saving; and undefined, changing nothing and not
\* saving, when no entry resolves.
C4_GetApiKey ==
    [][(lastOp'.op = "getApiKey" /\ lastOp'.args[1] \in ProviderIds
            /\ ProviderWithId(lastOp'.args[1]).keyConfigs # <<>>) =>
        LET id == lastOp'.args[1]
            p == ProviderWithId(id)
            kcs == p.keyConfigs
            cur == OrZero(p.currentKeyIndex)
            after == CHOOSE q \in {providers'[i] : i \in 1..Len(providers')} : q.id = id
        IN  /\ ~lastOp'.threw
            /\ featureBindings' = featureBindings
            /\ IF Resolves(KeyAt(kcs, cur))
               THEN /\ lastOp'.ret = Key(resolveKeyValue(KeyAt(kcs, cur)))
                    /\ providers' = providers
                    /\ ~saved'
               ELSE IF ResolvingIndices(kcs) = {}
               THEN /\ lastOp'.ret = Key(KUndef)
                    /\ providers' = providers
                    /\ ~saved'
               ELSE LET j == FirstResolvingFrom(kcs, cur, 0) IN
                    /\ lastOp'.ret = Key(resolveKeyValue(KeyAt(kcs, j)))
                    /\ after = [p EXCEPT !.currentKeyIndex = <<j>>]
                    /\ Len(providers') = Len(providers)
                    /\ saved'
    ]_vars

\* C4 witness: getApiKey found the key at currentKeyIndex unresolved, returned a
\* later one and committed its index
C4_Witness ==
    /\ lastOp.op = "getApiKey" /\ saved
    /\ lastOp.args[1] \in ProviderIds
    /\ Len(ProviderWithId(lastOp.args[1]).keyConfigs) = 3
    /\ ProviderWithId(lastOp.args[1]).currentKeyIndex = <<2>>
    /\ ~Resolves(KeyAt(ProviderWithId(lastOp.args[1]).keyConfigs, 1))
    /\ lastOp.ret.value = "sv"

\* the binding names an existing provider and a model that provider owns
BindingResolves(binding) ==
    /\ binding.providerId \in ProviderIds
    /\ binding.modelId \in ModelIds(ProviderWithId(binding.providerId))

\* the bindings of BindingInputs that resolve: one per model a provider owns
ResolvingBindings ==
    UNION {{[providerId |-> providers[i].id, modelId |-> providers[i].models[j].id,
             promptTemplate |-> "T"] : j \in 1..Len(providers[i].models)} :
           i \in 1..Len(providers)}

\* C11: setFeatureBinding(feature, b) stores b and persists when b names an existing
\* provider and a model that provider owns; otherwise it raises, leaves the
\* settings unchanged and does not call the persistence callback.
C11_SetFeatureBinding ==
    [][lastOp'.op = "setFeatureBinding" =>
        LET Resolving == ResolvingBindings
            Rejected == /\ lastOp'.threw
                        /\ ~saved'
                        /\ featureBindings' = featureBindings
                        /\ providers' = providers
            Stored(f, b) == /\ ~lastOp'.threw
                            /\ saved'
                            /\ f \in DOMAIN featureBindings'
                            /\ featureBindings'[f] = b
                            /\ \A g \in (DOMAIN featureBindings') \ {f} :
                                   g \in DOMAIN featureBindings
                                       /\ featureBindings'[g] = featureBindings[g]
        IN /\ \A f \in FeatureInputs, b \in Resolving :
                 \/ Stored(f, b)
                 \/ lastOp'.threw # setFeatureBinding(Settings, f, b).threw
                 \/ ~SetFeatureBinding(f, b)
           /\ Rejected \/ \A f \in FeatureInputs, b \in BindingInputs \ Resolving :
                             ~SetFeatureBinding(f, b)]_vars

\* a rejected setFeatureBinding while a provider owns a model and another
\* provider owns none: an existing provider with a model id it does not own
C11_Witness ==
    /\ lastOp.op = "setFeatureBinding"
    /\ lastOp.threw
    /\ \E i, j \in 1..Len(providers) :
          providers[i].models # <<>> /\ providers[j].models = <<>>

\* C12: a successful deleteModel(p, m) resets to its default, or removes when the
\* feature has no default, exactly the bindings whose providerId is p and whose
\* modelId is m, leaves every other binding as it was, and afterwards no binding
\* references the pair (p, m).
C12_DeleteModelResetsBindings ==
    [][(lastOp'.op = "deleteModel" /\ ~lastOp'.threw) =>
        \A p \in Ids, m \in Ids :
            \/ /\ p \in ProviderIds
               /\ \A f \in FeatureSet :
                      IF f \in DOMAIN featureBindings /\ featureBindings[f].providerId = p
                            /\ featureBindings[f].modelId = m
                      THEN IF f \in DOMAIN DEFAULT_FEATURE_BINDINGS
                           THEN /\ f \in DOMAIN featureBindings'
                                /\ featureBindings'[f] = DEFAULT_FEATURE_BINDINGS[f]
                           ELSE f \notin DOMAIN featureBindings'
                      ELSE /\ (f \in DOMAIN featureBindings') = (f \in DOMAIN featureBindings)
                           /\ f \in DOMAIN featureBindings =>
                                  featureBindings'[f] = featureBindings[f]
               /\ \A f \in DOMAIN featureBindings' :
                      ~(featureBindings'[f].providerId = p /\ featureBindings'[f].modelId = m)
               /\ m \notin ModelIds(ProviderWithId(p))'
            \/ ~DeleteModel(p, m)]_vars

\* after a deleteModel the naming binding is back at its default while the
\* translation binding still names a model the same provider keeps
C12_Witness ==
    /\ lastOp.op = "deleteModel"
    /\ ~lastOp.threw
    /\ "naming" \in DOMAIN featureBindings
    /\ featureBindings["naming"] = DEFAULT_FEATURE_BINDINGS["naming"]
    /\ "translation" \in DOMAIN featureBindings
    /\ BindingResolves(featureBindings["translation"])

\* the parameters of a stored model are within the ranges validateModelConfig accepts
ModelIsValid(model) ==
    /\ Trim(model.name) # <<>>
    /\ model.temperature >= 0 /\ model.temperature <= 20
    /\ model.topP >= 0 /\ model.topP <= 10
    /\ model.maxOutputTokens # <<>> =>
          (model.maxOutputTokens[1] % 10 = 0 /\ model.maxOutputTokens[1] >= 0)

\* C13: after any sequence of ConfigManager operations every stored model has a
\* non-empty name, temperature within [0, 2], topP within [0, 1] and, when set,
\* a non-negative integer maxOutputTokens.
C13_StoredModelsValid ==
    \A i \in 1..Len(providers) : \A j \in 1..Len(providers[i].models) :
        ModelIsValid(providers[i].models[j])

CrudOps ==
    {"addProvider", "updateProvider", "deleteProvider", "addModel", "updateModel",
     "deleteModel", "reorderModel", "setFeatureBinding"}

\* C14: a ConfigManager CRUD call that raises leaves the providers (their models
\* and currentKeyIndex included) and the feature bindings as they were before the
\* call and does not call the persistence callback.
C14_FailedCallChangesNothing ==
    [][(lastOp'.op \in CrudOps /\ lastOp'.threw) =>
        /\ providers' = providers
        /\ featureBindings' = featureBindings
        /\ ~saved']_vars

\* a rejected updateModel on settings that hold a provider with a model and a binding
C14_Witness ==
    /\ lastOp.op = "updateModel"
    /\ lastOp.threw
    /\ ~saved
    /\ \E i \in 1..Len(providers) : providers[i].models # <<>>
    /\ DOMAIN featureBindings # {}

(***************************************************************************)
(* Claims about the AIClient                                               *)
(***************************************************************************)
Terminal(call) == call.onComplete + call.onError

AllListeners(c) == {Listener(c, kind) : kind \in EventKinds}

\* C6: on a client that has a ServerManager, every requestStream call invokes its
\* terminal callbacks (onComplete, onError) at most once in total, and exactly once
\* by the time its promise has settled.
C6_OneTerminalCallback ==
    client.serverManager =>
        \A c \in Calls : calls[c].kind = "stream" =>
            /\ Terminal(calls[c]) <= 1
            /\ calls[c].outcome # "pending" => Terminal(calls[c]) = 1

\* C7: a call that was in flight when cancel() was called eventually has its
\* promise settled.
C7_CancelledCallSettles ==
    \A c \in Calls : calls[c].cancelled ~> calls[c].outcome # "pending"

\* C8: once cancel() has returned, no onChunk, onThinking or onComplete of a call
\* that was in flight at the cancel is invoked.
C8_NoCallbackAfterCancel ==
    [][\A c \in Calls : calls[c].cancelled =>
        /\ calls'[c].onChunk = calls[c].onChunk
        /\ calls'[c].onThinking = calls[c].onThinking
        /\ calls'[c].onComplete = calls[c].onComplete]_vars

\* C9: cancel() leaves the client with no abort handle and no listener, whether or
\* not a call was in flight, and a cancel() that follows a cancel() changes neither
\* the client nor the listeners nor the calls.
C9_CancelIdempotent ==
    [][lastOp'.op = "cancel" =>
        /\ client'.abortController = NoController
        /\ client'.llmCleanupFns = <<>>
        /\ transport'.listeners = {}
        /\ ~isRequestInProgress(World')
        /\ lastOp.op = "cancel" =>
            /\ client' = client
            /\ transport'.listeners = transport.listeners
            /\ calls' = calls]_vars

\* a second cancel() in a row with no call in flight, after a request was cancelled
\* and a stream ran to its end
C9_Witness ==
    /\ lastOp.op = "cancel"
    /\ lastOp.args = <<FALSE, TRUE>>
    /\ \E c \in Calls : calls[c].kind = "request" /\ calls[c].cancelled
    /\ \E c \in Calls : calls[c].kind = "stream" /\ calls[c].onComplete = 1

\* C10: while a call is in flight and cancel() has not been called, the client
\* holds that call's own abort handle (request) and the transport holds that
\* call's own listeners (requestStream waiting for its terminal event).
C10_OwnAbortHandle ==
    \A c \in Calls : (InFlight(calls[c]) /\ ~calls[c].cancelled) =>
        /\ calls[c].kind = "request" => client.abortController = c
        /\ calls[c].pc = "wait" => AllListeners(c) \subseteq transport.listeners

\* the KeyConfig the provider currently selects: keyConfigs[currentKeyIndex ?? 0]
\* when the list is not empty, keyConfig otherwise
SelectedKeyConfig(provider) ==
    IF Len(provider.keyConfigs) > 0
    THEN KeyAt(provider.keyConfigs, OrZero(provider.currentKeyIndex))
    ELSE provider.keyConfig

\* C15: every send of a constructed client carries, after 'Bearer ', the non-empty
\* resolved value of the provider's currently selected KeyConfig; a provider
\* without a resolvable key is rejected before any send.
C15_SendCarriesResolvedKey ==
    (lastOp.op \in {"request", "requestStream"} /\ lastOp.ret.tag = "send") =>
        /\ Truthy(lastOp.ret.authorization)
        /\ lastOp.ret.authorization = resolveKeyValue(SelectedKeyConfig(providers[1]))

(***************************************************************************)
(* Claims about the AIService                                              *)
(***************************************************************************)
\* the build of a responses-format request has been reached in the call
ResponsesBuilt == naming.pc # "idle" /\ naming.built /\ naming.apiFormat = "responses"

UnsupportedResponse(response) ==
    \/ response.status = 404
    \/ /\ response.status = 400
       /\ MessageTruthy(response.message)
       /\ \/ Includes(response.message, "unsupported")
          \/ Includes(response.message, "invalid endpoint")

AnsweredResponsesCall ==
    naming.pc = "done" /\ naming.apiFormat = "responses" /\ naming.response # NoResult

\* C17: when a responses-format request is answered with 404, or with 400 and a
\* message that mentions 'unsupported' or 'invalid endpoint', the error that
\* reaches the caller is an UnsupportedAPIFormatError whose suggested format is
\* chat-completions.
C17_UnsupportedFormatReachesCaller ==
    (AnsweredResponsesCall /\ UnsupportedResponse(naming.response)) =>
        /\ naming.error.kind = "UnsupportedAPIFormatError"
        /\ naming.error.suggestedFormat = "chat-completions"

\* C18: every 4xx response to a responses-format call that is not classified as an
\* unsupported wire format reaches the caller as a ResponsesAPIError with the
\* status code, the provider's error type or code, and the original message.
C18_Other4xxIsResponsesAPIError ==
    (AnsweredResponsesCall /\ naming.response.status \in {400, 401, 403, 422, 429}
        /\ ~UnsupportedResponse(naming.response)
        /\ ~(MessageTruthy(naming.response.message)
             /\ Includes(naming.response.message, "not supported"))) =>
        /\ naming.error.kind = "ResponsesAPIError"
        /\ naming.error.statusCode = naming.response.status
        /\ naming.error.errorType = OrElse(naming.response.type, naming.response.code)
        /\ naming.error.originalMessage = naming.response.message

(***************************************************************************)
(* ResponseParser: responses, ThinkingProcessor, parse                     *)
(***************************************************************************)

\* A text is a sequence of tokens: the two reasoning tags and plain characters.
ThinkOpen == "<think>"
ThinkClose == "</think>"
NewLine == "\n"
TextTokens == {ThinkOpen, ThinkClose, "a"}

MaxTextLen == 3
MaxItems == 3

RECURSIVE Texts(_)
Texts(n) ==
    IF n = 0 THEN {<<>>}
    ELSE LET shorter == Texts(n - 1)
         IN shorter \cup {Append(text, c) : text \in shorter, c \in TextTokens}

\* a + '\n' + b when a is truthy, else b (the joins of parseResponses)
JoinLines(a, b) ==
    IF a # <<>> THEN a \o <<NewLine>> \o b ELSE b

\* index of the first closing tag of s, 0 when there is none
FirstClose(s) ==
    IF \E j \in 1..Len(s) : s[j] = ThinkClose
    THEN CHOOSE j \in 1..Len(s) :
            s[j] = ThinkClose /\ \A k \in 1..(j - 1) : s[k] # ThinkClose
    ELSE 0

\* ThinkingProcessor.process: every <think>...</think> block is split out of
\* the text; the blocks' inner texts are the thinking, the remainder is the
\* content.  An opening tag that is never closed stays in the content.
RECURSIVE process(_)
process(text) ==
    IF text = <<>> THEN [content |-> <<>>, thinking |-> <<>>]
    ELSE LET after == Tail(text)
             close == FirstClose(after)
         IN IF Head(text) = ThinkOpen /\ close > 0
            THEN LET inner == SubSeq(after, 1, close - 1)
                     rest == process(SubSeq(after, close + 1, Len(after)))
                 IN [content |-> rest.content,
                     thinking |-> IF rest.thinking = <<>> THEN inner
                                  ELSE JoinLines(inner, rest.thinking)]
            ELSE LET rest == process(after)
                 IN [content |-> <<Head(text)>> \o rest.content,
                     thinking |-> rest.thinking]

\* A field that detectFormat inspects: absent, present but no array, or an array.
AbsentField == [kind |-> "absent", items |-> <<>>]
OtherField == [kind |-> "other", items |-> <<>>]
ArrayField(items) == [kind |-> "array", items |-> items]
IsArray(field) == field.kind = "array"

\* choices[i]: a missing message, a missing content and the empty content all
\* read as '' (choice.message?.content || ''), so one empty text stands for them
Choice(content, reasoning) == [content |-> content, reasoning_content |-> reasoning]

\* output[i] and the entries of its content or summary array
SubItem(type, text) == [type |-> type, text |-> text]
MessageItem(content) == [type |-> "message", content |-> content, summary |-> <<>>]
ReasoningItem(summary) == [type |-> "reasoning", content |-> <<>>, summary |-> summary]
OtherItem == [type |-> "function_call", content |-> <<>>, summary |-> <<>>]

NoUsage == <<>>
NoErrorMessage == ""

\* a raw response: isObject is false for null and for non-object values
Response(isObject, choices, output, errorMessage, usage) ==
    [isObject |-> isObject, choices |-> choices, output |-> output,
     errorMessage |-> errorMessage, usage |-> usage]

InvalidResponseError(parser, message) ==
    [kind |-> "InvalidResponseError", parser |-> parser, message |-> message,
     content |-> <<>>, reasoningSummary |-> <<>>, usage |-> NoUsage]

\* a ParsedResponse; reasoningSummary and usage are empty when left unset
ParsedResponse(parser, content, reasoningSummary, usage) ==
    [kind |-> "ParsedResponse", parser |-> parser, message |-> "",
     content |-> content, reasoningSummary |-> reasoningSummary, usage |-> usage]

detectFormatChoicesFirst(response) ==
    IF ~response.isObject THEN "unknown"
    ELSE IF IsArray(response.choices) THEN "chat-completions"
    ELSE IF IsArray(response.output) THEN "responses"
    ELSE "unknown"

detectFormat(response) ==
    IF ~response.isObject THEN "unknown"
    ELSE IF IsArray(response.output) THEN "responses"
    ELSE IF IsArray(response.choices) THEN "chat-completions"
    ELSE "unknown"

parseChatCompletions(response) ==
    IF response.errorMessage # NoErrorMessage
    THEN InvalidResponseError("parseChatCompletions", response.errorMessage)
    ELSE IF ~IsArray(response.choices) \/ Len(response.choices.items) = 0
    THEN InvalidResponseError("parseChatCompletions", "aiService.missingChoices")
    ELSE LET choice == response.choices.items[1]
             rawContent == choice.content
             reasoningContent == choice.reasoning_content
             processed == process(rawContent)
             finalContent == IF processed.content # <<>> THEN processed.content
                             ELSE reasoningContent
             summary == IF processed.content # <<>>
                            /\ (reasoningContent # <<>> \/ processed.thinking # <<>>)
                        THEN IF reasoningContent # <<>> THEN reasoningContent
                             ELSE processed.thinking
                        ELSE <<>>
         IN IF rawContent = <<>> /\ reasoningContent = <<>>
            THEN InvalidResponseError("parseChatCompletions", "aiService.missingContent")
            ELSE ParsedResponse("parseChatCompletions", finalContent, summary,
                                response.usage)

RECURSIVE extractMessageContent(_)
extractMessageContent(content) ==
    IF content = <<>> THEN <<>>
    ELSE LET contentItem == Head(content)
         IN (IF contentItem.type \in {"output_text", "text"} THEN contentItem.text
             ELSE <<>>) \o extractMessageContent(Tail(content))

\* the summary texts joined by '\n'; empty when there is none (undefined)
RECURSIVE extractReasoningSummary(_)
extractReasoningSummary(summary) ==
    IF summary = <<>> THEN <<>>
    ELSE LET summaryItem == Head(summary)
             rest == extractReasoningSummary(Tail(summary))
         IN IF summaryItem.type \in {"summary_text", "text"} /\ summaryItem.text # <<>>
            THEN IF rest = <<>> THEN summaryItem.text
                 ELSE summaryItem.text \o <<NewLine>> \o rest
            ELSE rest

\* the loop of parseResponses over the output array
RECURSIVE ScanOutput(_, _, _)
ScanOutput(output, messageContent, reasoningSummary) ==
    IF output = <<>>
    THEN [messageContent |-> messageContent, reasoningSummary |-> reasoningSummary]
    ELSE LET item == Head(output)
             summary == extractReasoningSummary(item.summary)
         IN IF item.type = "message"
            THEN ScanOutput(Tail(output),
                            messageContent \o extractMessageContent(item.content),
                            reasoningSummary)
            ELSE IF item.type = "reasoning" /\ summary # <<>>
            THEN ScanOutput(Tail(output), messageContent,
                            JoinLines(reasoningSummary, summary))
            ELSE ScanOutput(Tail(output), messageContent, reasoningSummary)

parseResponses(response) ==
    IF response.errorMessage # NoErrorMessage
    THEN InvalidResponseError("parseResponses", response.errorMessage)
    ELSE IF ~IsArray(response.output) \/ Len(response.output.items) = 0
    THEN InvalidResponseError("parseResponses", "aiService.missingOutput")
    ELSE LET scan == ScanOutput(response.output.items, <<>>, <<>>)
             processed == process(scan.messageContent)
             reasoningSummary ==
                 IF processed.thinking # <<>>
                 THEN JoinLines(scan.reasoningSummary, processed.thinking)
                 ELSE scan.reasoningSummary
         IN IF scan.messageContent = <<>>
            THEN InvalidResponseError("parseResponses", "aiService.missingContent")
            ELSE ParsedResponse("parseResponses", processed.content,
                                reasoningSummary, response.usage)

parse(response) ==
    LET format == detectFormat(response)
    IN IF format = "chat-completions" THEN parseChatCompletions(response)
       ELSE IF format = "responses" THEN parseResponses(response)
       ELSE InvalidResponseError("parse", "aiService.responseFormatError")

(***************************************************************************)
(* ResponseParser: the responses a provider can send, and the parse step   *)
(***************************************************************************)

UsageInputs == {NoUsage, <<3, 5>>}
ErrorMessageInputs == {NoErrorMessage, "quota exceeded"}

ChoicesInputs ==
    {<<>>}
    \cup {<<Choice(content, reasoning)>> :
            content \in Texts(MaxTextLen), reasoning \in {<<>>, <<"r">>}}
    \cup {<<Choice(<<>>, <<>>), Choice(<<"a">>, <<>>)>>}
    \cup {<<Choice(<<" ", " ", "H", "e", "l", "l", "o", ".", "m", "d", " ", " ">>, <<>>)>>}

CoreItems ==
    {MessageItem(<<>>),
     MessageItem(<<SubItem("text", <<"a">>)>>),
     MessageItem(<<SubItem("output_text", <<ThinkOpen, ThinkClose>>)>>),
     MessageItem(<<SubItem("refusal", <<"a">>)>>),
     MessageItem(<<SubItem("output_text", <<"a">>), SubItem("text", <<"a">>)>>),
     ReasoningItem(<<SubItem("summary_text", <<"r">>)>>),
     ReasoningItem(<<SubItem("text", <<"r">>), SubItem("summary_text", <<"r">>)>>),
     ReasoningItem(<<>>),
     OtherItem}

RECURSIVE ItemLists(_)
ItemLists(n) ==
    IF n = 0 THEN {<<>>}
    ELSE LET shorter == ItemLists(n - 1)
         IN shorter \cup {Append(items, item) : items \in shorter, item \in CoreItems}

OutputInputs ==
    ItemLists(MaxItems)
    \cup {<<MessageItem(<<SubItem("output_text", text)>>)>> : text \in Texts(MaxTextLen)}

ParserInputs ==
    {Response(TRUE, ArrayField(choices), AbsentField, errorMessage, usage) :
        choices \in ChoicesInputs, errorMessage \in ErrorMessageInputs,
        usage \in UsageInputs}
    \cup {Response(TRUE, AbsentField, ArrayField(output), errorMessage, usage) :
            output \in OutputInputs, errorMessage \in ErrorMessageInputs,
            usage \in UsageInputs}
    \cup {Response(TRUE, ArrayField(choices), ArrayField(output), NoErrorMessage, NoUsage) :
            choices \in {<<>>, <<Choice(<<"a">>, <<>>)>>},
            output \in {<<>>, <<MessageItem(<<SubItem("output_text", <<"a">>)>>)>>}}
    \cup {Response(TRUE, choices, output, NoErrorMessage, NoUsage) :
            choices \in {AbsentField, OtherField,
                         ArrayField(<<Choice(<<"a">>, <<>>)>>)},
            output \in {AbsentField, OtherField}}
    \cup {Response(FALSE, AbsentField, AbsentField, NoErrorMessage, NoUsage)}

(***************************************************************************)
(* AIService: extractFileName and the parsers of the naming service        *)
(***************************************************************************)

\* A string of the naming service is a sequence of characters; a character
\* outside ASCII is written by its name.
LineFeed == NewLine
ThinkTag == <<"<", "t", "h", "i", "n", "k", ">">>
ThinkEndTag == <<"<", "/", "t", "h", "i", "n", "k", ">">>
ThinkingTag == <<"<", "t", "h", "i", "n", "k", "i", "n", "g", ">">>
ThinkingEndTag == <<"<", "/", "t", "h", "i", "n", "k", "i", "n", "g", ">">>
SiKaoTag == <<"lenticular-open", "si", "kao", "lenticular-close">>
SiKaoEndTag == <<"lenticular-open", "/", "si", "kao", "lenticular-close">>
SiKaoSquareTag == <<"[", "si", "kao", "]">>
SiKaoSquareEndTag == <<"[", "/", "si", "kao", "]">>
FileNameWord == <<"wen", "jian", "ming">>
FileNameMarkers == {FileNameWord \o <<"fullwidth-colon">>, FileNameWord \o <<":">>}
TitleMarkers == {<<"t", "i", "t", "l", "e", ":">>}
DotMd == <<".", "m", "d">>
QuotePairs ==
    {<<"double-quote", "double-quote">>, <<"single-quote", "single-quote">>,
     <<"guillemet-open", "guillemet-close">>, <<"backtick", "backtick">>}

MaxFileNameLength == 100

IsWhite(c) == c \in {" ", LineFeed}

\* String.prototype.trim, line breaks included
RECURSIVE trim(_)
trim(s) ==
    IF s = <<>> THEN <<>>
    ELSE IF IsWhite(Head(s)) THEN trim(Tail(s))
    ELSE IF IsWhite(s[Len(s)]) THEN trim(SubSeq(s, 1, Len(s) - 1))
    ELSE s

toLowerCase(s) ==
    [i \in 1..Len(s) |->
        CASE s[i] = "T" -> "t" [] s[i] = "M" -> "m" [] s[i] = "D" -> "d"
          [] OTHER -> s[i]]

MatchAt(s, pattern, i) ==
    /\ i + Len(pattern) - 1 <= Len(s)
    /\ SubSeq(s, i, i + Len(pattern) - 1) = pattern

\* position of the first occurrence of one of the patterns at or after i, 0 when none
indexOf(s, patterns, i) ==
    LET hits == {j \in i..Len(s) : \E pattern \in patterns : MatchAt(s, pattern, j)}
    IN IF hits = {} THEN 0 ELSE CHOOSE j \in hits : \A k \in hits : j <= k

\* the length of the pattern matched at i
MatchLen(s, patterns, i) ==
    Len(CHOOSE pattern \in patterns : MatchAt(s, pattern, i))

includes(s, patterns) == indexOf(s, patterns, 1) > 0
startsWith(s, pattern) == MatchAt(s, pattern, 1)
endsWith(s, pattern) ==
    Len(pattern) <= Len(s) /\ MatchAt(s, pattern, Len(s) - Len(pattern) + 1)

\* String.prototype.substring(from, to), 0-based, arguments swapped when from > to
substring(s, from, to) ==
    LET lo == IF from <= to THEN from ELSE to
        hi == IF from <= to THEN to ELSE from
    IN SubSeq(s, lo + 1, IF hi > Len(s) THEN Len(s) ELSE hi)

\* s.replace(/open[\s\S]*?close/g, ''): leftmost shortest blocks removed; the
\* tags are matched in lower case when ignoreCase
RECURSIVE removeBlocks(_, _, _, _)
removeBlocks(s, open, close, ignoreCase) ==
    LET hay == IF ignoreCase THEN toLowerCase(s) ELSE s
        i == indexOf(hay, {open}, 1)
        j == IF i = 0 THEN 0 ELSE indexOf(hay, {close}, i + Len(open))
    IN IF j = 0 THEN s
       ELSE SubSeq(s, 1, i - 1)
              \o removeBlocks(SubSeq(s, j + Len(close), Len(s)), open, close, ignoreCase)

\* s.split(pattern): the pieces between the occurrences of the patterns
RECURSIVE split(_, _)
split(s, patterns) ==
    LET i == indexOf(s, patterns, 1)
    IN IF i = 0 THEN <<s>>
       ELSE <<SubSeq(s, 1, i - 1)>>
              \o split(SubSeq(s, i + MatchLen(s, patterns, i), Len(s)), patterns)

\* split at the markers, matched in lower case when ignoreCase
RECURSIVE splitMarker(_, _, _)
splitMarker(s, patterns, ignoreCase) ==
    LET hay == IF ignoreCase THEN toLowerCase(s) ELSE s
        i == indexOf(hay, patterns, 1)
    IN IF i = 0 THEN <<s>>
       ELSE <<SubSeq(s, 1, i - 1)>>
              \o splitMarker(SubSeq(s, i + MatchLen(hay, patterns, i), Len(s)),
                             patterns, ignoreCase)

\* content.split('\n').map(trim).filter(line => line.length > 0)
NonEmptyLines(s) ==
    LET pieces == split(s, {<<LineFeed>>})
        trimmed == [k \in 1..Len(pieces) |-> trim(pieces[k])]
    IN SelectSeq(trimmed, LAMBDA line : line # <<>>)

\* line.split(marker)[1]?.trim() || line
AfterMarker(line, patterns, ignoreCase) ==
    LET pieces == splitMarker(line, patterns, ignoreCase)
        after == IF Len(pieces) >= 2 THEN trim(pieces[2]) ELSE <<>>
    IN IF after # <<>> THEN after ELSE line

\* the loop over the lines from the last to the first: the text after the
\* marker of the last line that has one, or current when no line has one
RECURSIVE markerLoop(_, _, _)
markerLoop(lines, i, current) ==
    IF i = 0 THEN current
    ELSE IF includes(lines[i], FileNameMarkers)
    THEN AfterMarker(lines[i], FileNameMarkers, FALSE)
    ELSE IF includes(toLowerCase(lines[i]), TitleMarkers)
    THEN AfterMarker(lines[i], TitleMarkers, TRUE)
    ELSE markerLoop(lines, i - 1, current)

\* fileName.replace(/^(marker|Title:\s*)/i, '')
RECURSIVE dropLeadingWhite(_)
dropLeadingWhite(s) ==
    IF s # <<>> /\ IsWhite(Head(s)) THEN dropLeadingWhite(Tail(s)) ELSE s

removePrefix(s) ==
    LET low == toLowerCase(s)
    IN IF \E marker \in FileNameMarkers : startsWith(low, marker)
       THEN SubSeq(s, Len(FileNameWord) + 2, Len(s))
       ELSE IF \E marker \in TitleMarkers : startsWith(low, marker)
       THEN dropLeadingWhite(SubSeq(s, MatchLen(low, TitleMarkers, 1) + 1, Len(s)))
       ELSE s

\* const x = value; F(x): the value is computed once and then named
Bind(value, F(_)) == CHOOSE result \in {F(x) : x \in {value}} : TRUE

\* the text of extractFileName after the reasoning markup was removed
removeThinking(content) ==
    Bind(trim(removeBlocks(content, ThinkTag, ThinkEndTag, TRUE)), LAMBDA p1 :
    Bind(trim(removeBlocks(p1, ThinkingTag, ThinkingEndTag, TRUE)), LAMBDA p2 :
    Bind(trim(removeBlocks(p2, SiKaoTag, SiKaoEndTag, FALSE)), LAMBDA p3 :
         trim(removeBlocks(p3, SiKaoSquareTag, SiKaoSquareEndTag, FALSE)))))

stripQuotes(fileName) ==
    IF \E q \in QuotePairs : startsWith(fileName, <<q[1]>>) /\ endsWith(fileName, <<q[2]>>)
    THEN substring(fileName, 1, Len(fileName) - 1)
    ELSE fileName

stripExtension(fileName) ==
    IF endsWith(toLowerCase(fileName), DotMd)
    THEN substring(fileName, 0, Len(fileName) - 3)
    ELSE fileName

capLength(fileName) ==
    IF Len(fileName) > MaxFileNameLength
    THEN substring(fileName, 0, MaxFileNameLength)
    ELSE fileName

\* mutant: the extension is kept
finishFileNameKeepExtension(processedContent) ==
    Bind(stripQuotes(processedContent), LAMBDA unquoted :
    Bind(trim(removePrefix(unquoted)), LAMBDA noPrefix :
    Bind(capLength(noPrefix), LAMBDA capped : trim(capped))))

\* the quote stripping, extension removal, prefix removal and length cap of
\* extractFileName, applied to the text it selected
finishFileName(processedContent) ==
    Bind(stripQuotes(processedContent), LAMBDA unquoted :
    Bind(stripExtension(unquoted), LAMBDA noExt :
    Bind(trim(removePrefix(noExt)), LAMBDA noPrefix :
    Bind(capLength(noPrefix), LAMBDA capped : trim(capped)))))

\* the text extractFileName selects: the marker text or the last line of a reply
\* of several lines, unless the text differs from the content it was given
selectLine(content, stripped, lines) ==
    IF Len(lines) > 1
    THEN Bind(markerLoop(lines, Len(lines), stripped), LAMBDA marked :
              IF marked = content THEN lines[Len(lines)] ELSE marked)
    ELSE stripped

extractFileName(content) ==
    Bind(content, LAMBDA given :
    Bind(removeThinking(given), LAMBDA stripped :
    Bind(NonEmptyLines(stripped), LAMBDA lines :
    Bind(finishFileName(selectLine(given, stripped, lines)), LAMBDA fileName :
         IF fileName = <<>> THEN [threw |-> TRUE, fileName |-> <<>>]
         ELSE [threw |-> FALSE, fileName |-> fileName]))))

\* the outcome of a parser of the naming service: a file name or a plain Error
FileName(parser, fileName, reasoningSummary) ==
    [kind |-> "FileName", parser |-> parser, message |-> "",
     content |-> fileName, reasoningSummary |-> reasoningSummary, usage |-> NoUsage]

NamingError(parser, message) ==
    [kind |-> "Error", parser |-> parser, message |-> message,
     content |-> <<>>, reasoningSummary |-> <<>>, usage |-> NoUsage]

\* AIService.parseResponse
parseResponse(response) ==
    IF ~response.isObject \/ ~IsArray(response.choices)
          \/ Len(response.choices.items) = 0
    THEN NamingError("parseResponse", "aiService.missingChoices")
    ELSE LET choice == response.choices.items[1]
             extracted == extractFileName(trim(choice.content))
         IN IF choice.content = <<>>
            THEN NamingError("parseResponse", "aiService.missingContent")
            ELSE IF extracted.threw
            THEN NamingError("parseResponse", "aiService.emptyFileName")
            ELSE FileName("parseResponse", extracted.fileName, <<>>)

\* the loop of parseResponsesResponse: every reasoning item assigns the summary
RECURSIVE ScanOutputNaming(_, _, _)
ScanOutputNaming(output, messageContent, reasoningSummary) ==
    IF output = <<>>
    THEN [messageContent |-> messageContent, reasoningSummary |-> reasoningSummary]
    ELSE LET item == Head(output)
         IN IF item.type = "message"
            THEN ScanOutputNaming(Tail(output),
                                  messageContent \o extractMessageContent(item.content),
                                  reasoningSummary)
            ELSE IF item.type = "reasoning"
            THEN ScanOutputNaming(Tail(output), messageContent,
                                  extractReasoningSummary(item.summary))
            ELSE ScanOutputNaming(Tail(output), messageContent, reasoningSummary)

\* AIService.parseResponsesResponse
parseResponsesResponse(response) ==
    IF ~response.isObject \/ ~IsArray(response.output)
          \/ Len(response.output.items) = 0
    THEN NamingError("parseResponsesResponse", "aiService.missingOutput")
    ELSE LET scan == ScanOutputNaming(response.output.items, <<>>, <<>>)
             extracted == extractFileName(trim(scan.messageContent))
         IN IF scan.messageContent = <<>>
            THEN NamingError("parseResponsesResponse", "aiService.missingContent")
            ELSE IF extracted.threw
            THEN NamingError("parseResponsesResponse", "aiService.emptyFileName")
            ELSE FileName("parseResponsesResponse", extracted.fileName,
                          scan.reasoningSummary)

\* AIService.parseResponseAuto
parseResponseAuto(response) ==
    IF response.isObject /\ IsArray(response.output) THEN parseResponsesResponse(response)
    ELSE IF response.isObject /\ IsArray(response.choices) THEN parseResponse(response)
    ELSE NamingError("parseResponseAuto", "aiService.responseFormatError")

\* AIService.parseUnifiedResponse; KUndef is the omitted format
parseUnifiedResponse(response, apiFormat) ==
    IF apiFormat = "responses" THEN parseResponsesResponse(response)
    ELSE IF apiFormat = "chat-completions" THEN parseResponse(response)
    ELSE parseResponseAuto(response)

(***************************************************************************)
(* AIService: the replies the naming service parses, and the parse step     *)
(***************************************************************************)

MaxSegments == 3

ThinkBlock == ThinkTag \o <<"x">> \o ThinkEndTag
TitleWord == <<"T", "i", "t", "l", "e", ":">>

NameSegments ==
    {<<"a">>, <<"b">>, <<" ">>, <<LineFeed>>, DotMd, TitleWord,
     FileNameWord \o <<"fullwidth-colon">>, <<"double-quote">>}

RECURSIVE NameBodies(_)
NameBodies(n) ==
    IF n = 0 THEN {<<>>}
    ELSE LET shorter == NameBodies(n - 1)
         IN shorter \cup {body \o segment : body \in shorter, segment \in NameSegments}

Repeat(s, n) == [i \in 1..(n * Len(s)) |-> s[((i - 1) % Len(s)) + 1]]

\* the spec's example, and replies around the length cap
ExampleTexts ==
    {<<" ", " ", "H", "e", "l", "l", "o", ".", "m", "d", " ", " ">>,
     <<"H", "e", "l", "l", "o", ".", "M", "D">>,
     Repeat(<<"a">>, MaxFileNameLength + 1),
     Repeat(<<"a">>, MaxFileNameLength - 1) \o DotMd,
     Repeat(<<"a">>, MaxFileNameLength - 1) \o <<" ", "b">>,
     TitleWord \o Repeat(<<"a">>, MaxFileNameLength + 1),
     <<"a", LineFeed>> \o Repeat(<<"b">>, MaxFileNameLength + 1)}

\* a reply with reasoning markup in front of or behind a body, or without
NameTexts ==
    LET bodies == NameBodies(MaxSegments)
    IN bodies \cup {ThinkBlock \o body : body \in bodies}
              \cup {body \o ThinkBlock : body \in bodies}
              \cup ExampleTexts

NamingItems ==
    {MessageItem(<<SubItem("output_text", <<"a">>)>>),
     MessageItem(<<SubItem("text", <<"b">>)>>),
     ReasoningItem(<<SubItem("summary_text", <<"r">>)>>),
     ReasoningItem(<<SubItem("summary_text", <<"s">>), SubItem("text", <<"t">>)>>),
     ReasoningItem(<<>>),
     OtherItem}

RECURSIVE NamingItemLists(_)
NamingItemLists(n) ==
    IF n = 0 THEN {<<>>}
    ELSE LET shorter == NamingItemLists(n - 1)
         IN shorter \cup {Append(items, item) : items \in shorter, item \in NamingItems}

\* the replies: each field is an array or absent
NamingResponses ==
    {Response(TRUE, ArrayField(<<Choice(text, <<>>)>>), AbsentField,
              NoErrorMessage, NoUsage) : text \in NameTexts}
    \cup {Response(TRUE, AbsentField,
                   ArrayField(<<MessageItem(<<SubItem("output_text", text)>>)>>),
                   NoErrorMessage, NoUsage) : text \in NameBodies(MaxSegments - 1)}
    \cup {Response(TRUE, AbsentField, ArrayField(output), NoErrorMessage, NoUsage) :
            output \in NamingItemLists(MaxItems)}
    \cup {Response(TRUE, ArrayField(<<>>), AbsentField, NoErrorMessage, NoUsage),
          Response(TRUE, AbsentField, AbsentField, NoErrorMessage, NoUsage),
          Response(FALSE, AbsentField, AbsentField, NoErrorMessage, NoUsage)}

\* parseUnifiedResponse(response, apiFormat) on a reply the provider sent
ParseFileName ==
    /\ parsing = ParsingIdle
    /\ \E response \in NamingResponses,
          apiFormat \in {"responses", "chat-completions", KUndef} :
          parsing' = [pc |-> "named", response |-> response, apiFormat |-> apiFormat,
                      outcome |-> parseUnifiedResponse(response, apiFormat)]
    /\ UNCHANGED <<providers, featureBindings, nextId, secretServiceSet,
                   secretStorage, lastOp, saved, rotLog, client, transport,
                   calls, naming,
                   cache, terminal>>

\* ResponseParser.parse(responseData) on a response the transport delivered
Parse ==
    /\ parsing = ParsingIdle
    /\ \E response \in ParserInputs :
          parsing' = [pc |-> "done", response |-> response, apiFormat |-> KUndef,
                      outcome |-> parse(response)]
    /\ UNCHANGED <<providers, featureBindings, nextId, secretServiceSet,
                   secretStorage, lastOp, saved, rotLog, client, transport,
                   calls, naming,
                   cache, terminal>>

NextParser == Parse \/ ParseFileName

SpecParser == Init /\ [][NextParser]_vars

(***************************************************************************)
(* Claims about the ResponseParser                                         *)
(***************************************************************************)

Parsed == parsing.pc = "done"

C20_NeverEmptyContent ==
    (Parsed /\ parsing.outcome.kind = "ParsedResponse") =>
        parsing.outcome.content # <<>>

(***************************************************************************)
(* Claims about the parsers of responses-format replies and of file names  *)
(***************************************************************************)

Named == parsing.pc = "named"

\* the text parts of all message items of an output array, in order
RECURSIVE MessageText(_)
MessageText(output) ==
    IF output = <<>> THEN <<>>
    ELSE (IF Head(output).type = "message"
          THEN extractMessageContent(Head(output).content) ELSE <<>>)
            \o MessageText(Tail(output))

\* the summary parts of all reasoning items of an output array, in order, one
\* per line
RECURSIVE SummaryText(_)
SummaryText(output) ==
    IF output = <<>> THEN <<>>
    ELSE LET first == IF Head(output).type = "reasoning"
                      THEN extractReasoningSummary(Head(output).summary) ELSE <<>>
             rest == SummaryText(Tail(output))
         IN IF first = <<>> THEN rest
            ELSE IF rest = <<>> THEN first
            ELSE first \o <<NewLine>> \o rest

\* C21: for a responses-format payload with several items, the returned content
\* is made of the text parts of all message items in order, and the returned
\* reasoningSummary of the summary parts of all reasoning items in order, not
\* only of the last one; this holds of ResponseParser.parse and of the naming
\* service's parseResponsesResponse.
C21_AllItemsContribute ==
    /\ (Parsed /\ parsing.outcome.kind = "ParsedResponse"
            /\ parsing.outcome.parser = "parseResponses") =>
          LET text == MessageText(parsing.response.output.items)
              summary == SummaryText(parsing.response.output.items)
          IN /\ parsing.outcome.content = process(text).content
             /\ parsing.outcome.reasoningSummary =
                    IF process(text).thinking = <<>> THEN summary
                    ELSE JoinLines(summary, process(text).thinking)
    /\ (Named /\ parsing.outcome.kind = "FileName"
            /\ parsing.outcome.parser = "parseResponsesResponse") =>
          /\ parsing.outcome.content =
                extractFileName(trim(MessageText(parsing.response.output.items))).fileName
          /\ parsing.outcome.reasoningSummary =
                SummaryText(parsing.response.output.items)

HelloMd == <<" ", " ", "H", "e", "l", "l", "o", ".", "m", "d", " ", " ">>
Hello == <<"H", "e", "l", "l", "o">>

\* a chat-completions reply was parsed by a chat-completions parser
ChatParsed ==
    /\ Parsed \/ Named
    /\ parsing.outcome.parser \in {"parseChatCompletions", "parseResponse"}
    /\ Len(parsing.response.choices.items) > 0

PlainReply(text) ==
    /\ ~includes(text, {<<LineFeed>>})
    /\ ~includes(toLowerCase(text), {ThinkTag, ThinkingTag, SiKaoTag, SiKaoSquareTag})
    /\ \A q \in QuotePairs : ~startsWith(text, <<q[1]>>)
    /\ \A marker \in FileNameMarkers \cup TitleMarkers :
          ~startsWith(toLowerCase(text), marker)

\* the reply without one trailing '.md' in any letter case
WithoutExtension(text) ==
    IF endsWith(toLowerCase(text), DotMd) THEN SubSeq(text, 1, Len(text) - 3) ELSE text

HasMarker(line) ==
    includes(line, FileNameMarkers) \/ includes(toLowerCase(line), TitleMarkers)

\* the text after the marker of the last line that has one, the last line when
\* no line has one
PreferredLine(lines) ==
    LET marked == {i \in 1..Len(lines) : HasMarker(lines[i])}
    IN IF marked = {} THEN lines[Len(lines)]
       ELSE LET i == CHOOSE k \in marked : \A m \in marked : m <= k
            IN IF includes(lines[i], FileNameMarkers)
               THEN AfterMarker(lines[i], FileNameMarkers, FALSE)
               ELSE AfterMarker(lines[i], TitleMarkers, TRUE)

\* C23: when the model's text, after removal of reasoning markup, still has more
\* than one non-empty line, the returned file name is made from the text after an
\* explicit marker if a line has one and otherwise from the last non-empty line;
\* a returned file name never contains a line break and never exceeds 100
\* characters.
C23_MultiLineReplyCollapsed ==
    (Named /\ parsing.outcome.kind = "FileName") =>
        /\ ~includes(parsing.outcome.content, {<<LineFeed>>})
        /\ Len(parsing.outcome.content) <= MaxFileNameLength
        /\ parsing.outcome.parser = "parseResponse" =>
              LET lines == NonEmptyLines(removeThinking(
                               trim(parsing.response.choices.items[1].content)))
              IN Len(lines) > 1 =>
                    parsing.outcome.content = finishFileName(PreferredLine(lines))

(***************************************************************************)
(* AIService: endpoint normalization                                       *)
(***************************************************************************)

\* A URL is a sequence of tokens: a scheme with its colon, a slash, a blank, a
\* query, or a name (a host or a path segment).
SchemeTokens == {"https:", "http:", "ftp:"}
Slash == "/"
V1 == <<Slash, "v1">>
ChatPath == <<Slash, "chat">>
CompletionsPath == <<Slash, "completions">>
ResponsesPath == <<Slash, "responses">>
ModelsPath == <<Slash, "models">>

commonPaths ==
    {V1 \o ChatPath \o CompletionsPath, ChatPath \o CompletionsPath,
     V1 \o CompletionsPath, CompletionsPath}

\* in the order the code tries them
pathsToRemove ==
    <<V1 \o ChatPath \o CompletionsPath, ChatPath \o CompletionsPath,
      V1 \o CompletionsPath, CompletionsPath, V1 \o ModelsPath, ModelsPath, V1>>

EndpointThrew == [threw |-> TRUE, url |-> <<>>]
EndpointIs(url) == [threw |-> FALSE, url |-> url]

\* normalized.match(/^https?:\/\//i)
HasHttpScheme(url) ==
    Len(url) >= 3 /\ url[1] \in {"https:", "http:"} /\ url[2] = Slash /\ url[3] = Slash

\* normalized.includes('://')
HasSchemeSeparator(url) ==
    \E i \in 1..(Len(url) - 2) :
        url[i] \in SchemeTokens /\ url[i + 1] = Slash /\ url[i + 2] = Slash

addScheme(url) ==
    IF HasHttpScheme(url) THEN url
    ELSE IF startsWith(url, <<Slash, Slash>>) THEN <<"https:">> \o url
    ELSE IF ~HasSchemeSeparator(url) THEN <<"https:", Slash, Slash>> \o url
    ELSE url

\* normalized.replace(/\/+$/, '')
stripTrailingSlashes(url) ==
    LET keep == {i \in 1..Len(url) : url[i] # Slash}
    IN IF keep = {} THEN <<>>
       ELSE SubSeq(url, 1, CHOOSE i \in keep : \A k \in keep : k <= i)

\* normalized.replace(/([^:])\/\//g, '$1/'): from left to right, two slashes
\* after a character other than a colon become one
RECURSIVE fixDoubleSlashes(_, _)
fixDoubleSlashes(url, i) ==
    IF i > Len(url) THEN <<>>
    ELSE IF i + 2 <= Len(url) /\ url[i] \notin SchemeTokens
              /\ url[i + 1] = Slash /\ url[i + 2] = Slash
    THEN <<url[i], Slash>> \o fixDoubleSlashes(url, i + 3)
    ELSE <<url[i]>> \o fixDoubleSlashes(url, i + 1)

\* new URL(normalized).pathname for the schemes above: the slashes after
\* the scheme are skipped, the host runs up to the next slash or query and must
\* be non-empty and free of blanks, the path runs up to the query
parseUrl(url) ==
    IF url = <<>> \/ Head(url) \notin SchemeTokens THEN [ok |-> FALSE, pathname |-> <<>>]
    ELSE LET hostStarts == {i \in 2..Len(url) : url[i] # Slash}
             first == IF hostStarts = {} THEN Len(url) + 1
                      ELSE CHOOSE i \in hostStarts : \A k \in hostStarts : i <= k
             hostEnds == {i \in first..Len(url) : url[i] \in {Slash, "?q"}}
             after == IF hostEnds = {} THEN Len(url) + 1
                      ELSE CHOOSE i \in hostEnds : \A k \in hostEnds : i <= k
             queries == {i \in after..Len(url) : url[i] = "?q"}
             query == IF queries = {} THEN Len(url) + 1
                      ELSE CHOOSE i \in queries : \A k \in queries : i <= k
             host == SubSeq(url, first, after - 1)
             path == SubSeq(url, after, query - 1)
         IN IF host = <<>> \/ \E i \in 1..Len(host) : host[i] \in {" "} \cup SchemeTokens
            THEN [ok |-> FALSE, pathname |-> <<>>]
            ELSE [ok |-> TRUE, pathname |-> IF path = <<>> THEN <<Slash>> ELSE path]

\* s.replace(/suffix\/?$/, '')
dropSuffix(url, suffix) ==
    IF endsWith(url, suffix) THEN SubSeq(url, 1, Len(url) - Len(suffix))
    ELSE IF endsWith(url, suffix \o <<Slash>>)
    THEN SubSeq(url, 1, Len(url) - Len(suffix) - 1)
    ELSE url

\* the try block of normalizeEndpoint
completePath(url) ==
    Bind(parseUrl(url), LAMBDA urlObj :
        IF ~urlObj.ok THEN url
        ELSE IF urlObj.pathname \in {V1, V1 \o <<Slash>>}
        THEN dropSuffix(url, V1) \o V1 \o ChatPath \o CompletionsPath
        ELSE IF urlObj.pathname = <<Slash>>
        THEN url \o V1 \o ChatPath \o CompletionsPath
        ELSE IF urlObj.pathname \in {ChatPath, ChatPath \o <<Slash>>}
        THEN dropSuffix(url, ChatPath) \o ChatPath \o CompletionsPath
        ELSE url)

normalizeEndpoint(url) ==
    Bind(trim(url), LAMBDA trimmed :
        IF trimmed = <<>> THEN EndpointThrew
        ELSE Bind(stripTrailingSlashes(addScheme(trimmed)), LAMBDA normalized :
             Bind(IF includes(normalized, commonPaths) THEN normalized
                  ELSE completePath(normalized), LAMBDA completed :
                  EndpointIs(fixDoubleSlashes(completed, 1)))))

\* the loop over pathsToRemove: the first path the URL ends with is cut off
RECURSIVE removeApiPath(_, _)
removeApiPath(url, k) ==
    IF k > Len(pathsToRemove) THEN url
    ELSE IF endsWith(url, pathsToRemove[k])
    THEN SubSeq(url, 1, Len(url) - Len(pathsToRemove[k]))
    ELSE removeApiPath(url, k + 1)

normalizeResponsesEndpoint(url) ==
    Bind(trim(url), LAMBDA trimmed :
        IF trimmed = <<>> THEN EndpointThrew
        ELSE Bind(stripTrailingSlashes(addScheme(trimmed)), LAMBDA normalized :
             IF includes(normalized, {V1 \o ResponsesPath})
             THEN EndpointIs(fixDoubleSlashes(normalized, 1))
             ELSE Bind(removeApiPath(normalized, 1) \o V1 \o ResponsesPath,
                       LAMBDA completed : EndpointIs(fixDoubleSlashes(completed, 1)))))

getEndpointForFormat(baseEndpoint, apiFormat) ==
    IF apiFormat = "responses" THEN normalizeResponsesEndpoint(baseEndpoint)
    ELSE normalizeEndpoint(baseEndpoint)

\* Endpoints handed to the service: an optional scheme, a host, up to
\* MaxUrlSegments path segments and an optional query; blank strings too.
MaxUrlSegments == 3

UrlSegments ==
    {<<Slash>>, V1, ChatPath, CompletionsPath, ResponsesPath, ModelsPath, <<Slash, "x">>}

RECURSIVE UrlPaths(_)
UrlPaths(n) ==
    IF n = 0 THEN {<<>>}
    ELSE UrlPaths(n - 1) \cup {p \o seg : p \in UrlPaths(n - 1), seg \in UrlSegments}

UrlPrefixes ==
    {<<>>, <<"https:", Slash, Slash>>, <<"http:", Slash, Slash>>, <<Slash, Slash>>,
     <<"ftp:", Slash, Slash>>}

UrlHosts == {<<"h">>, <<"h", " ", "h">>}

BaseEndpoints ==
    {<<>>, <<" ">>, <<" ", "h", " ">>}
        \cup {pre \o host \o path \o query :
                 pre \in UrlPrefixes, host \in UrlHosts,
                 path \in UrlPaths(MaxUrlSegments), query \in {<<>>, <<"?q">>}}

ApiFormats == {"chat-completions", "responses"}

\* sendRequest: the endpoint of the request is computed from the provider's
\* endpoint and the API format of the model
GetEndpoint(baseEndpoint, apiFormat) ==
    /\ naming = NamingIdle
    /\ naming' = [pc |-> "endpoint", baseEndpoint |-> baseEndpoint,
                  apiFormat |-> apiFormat, renormalized |-> FALSE,
                  endpoint |-> getEndpointForFormat(baseEndpoint, apiFormat)]
    /\ UNCHANGED <<providers, featureBindings, nextId, secretServiceSet, secretStorage,
                   lastOp, saved, rotLog, client, transport, calls, parsing,
                   cache, terminal>>

\* the endpoint that came out is handed in again, with the same format
GetEndpointAgain ==
    /\ naming.pc = "endpoint"
    /\ ~naming.endpoint.threw
    /\ ~naming.renormalized
    /\ naming' = [pc |-> "endpoint", baseEndpoint |-> naming.endpoint.url,
                  apiFormat |-> naming.apiFormat, renormalized |-> TRUE,
                  endpoint |-> getEndpointForFormat(naming.endpoint.url, naming.apiFormat)]
    /\ UNCHANGED <<providers, featureBindings, nextId, secretServiceSet, secretStorage,
                   lastOp, saved, rotLog, client, transport, calls, parsing,
                   cache, terminal>>

NextEndpoint ==
    \/ \E baseEndpoint \in BaseEndpoints, apiFormat \in ApiFormats :
          GetEndpoint(baseEndpoint, apiFormat)
    \/ GetEndpointAgain

SpecEndpoint == Init /\ [][NextEndpoint]_vars

EndpointComputed == naming.pc = "endpoint"

\* C24: normalizing an endpoint that is already the output of the normalization,
\* with the same format, returns it unchanged.
C24_NormalizationIdempotent ==
    (EndpointComputed /\ naming.renormalized) =>
        /\ ~naming.endpoint.threw
        /\ naming.endpoint.url = naming.baseEndpoint

\* C25: the normalization never raises, and an input that does not parse as a
\* URL is returned with only the scheme and slash fixes applied.
C25_NormalizationNeverThrows ==
    EndpointComputed =>
        /\ ~naming.endpoint.threw
        /\ ~parseUrl(stripTrailingSlashes(addScheme(trim(naming.baseEndpoint)))).ok =>
              naming.endpoint.url =
                  fixDoubleSlashes(stripTrailingSlashes(addScheme(trim(naming.baseEndpoint))), 1)

\* the part of C25 about inputs that are not blank, in the chat-completions
\* format
C25_ChatUnparseableKept ==
    (EndpointComputed /\ naming.apiFormat = "chat-completions"
        /\ trim(naming.baseEndpoint) # <<>>) =>
        /\ ~naming.endpoint.threw
        /\ ~parseUrl(stripTrailingSlashes(addScheme(trim(naming.baseEndpoint)))).ok =>
              naming.endpoint.url =
                  fixDoubleSlashes(stripTrailingSlashes(addScheme(trim(naming.baseEndpoint))), 1)

\* C26: getApiKey and rotateApiKey never return the empty string: the result
\* is a non-empty key or undefined.
C26_NeverEmptyKey ==
    lastOp.op \in {"getApiKey", "rotateApiKey"} => lastOp.ret.value # KEmpty

\* the part of C26 that holds: with two or more keyConfigs, the call returns a
\* non-empty key or undefined
C26_KeyListNeverEmptyKey ==
    (lastOp.op \in {"getApiKey", "rotateApiKey"} /\ lastOp.args[1] = 1
        /\ Len(providers[1].keyConfigs) > 1) => lastOp.ret.value # KEmpty

\* the operations that store or invalidate feature bindings, with updateProvider
\* carrying a model list among its updates
NextBindings ==
    \/ \E provider \in ProviderInputs : AddProvider(provider)
    \/ \E id \in Ids, updates \in ModelListUpdateInputs : UpdateProvider(id, updates)
    \/ \E id \in Ids : DeleteProvider(id)
    \/ \E id \in Ids : AddModel(id, ValidModel)
    \/ \E id \in Ids, m \in Ids, updates \in ModelUpdateInputs : UpdateModel(id, m, updates)
    \/ \E id \in Ids, m \in Ids : DeleteModel(id, m)
    \/ \E f \in FeatureInputs, b \in BindingInputs : SetFeatureBinding(f, b)

SpecBindings == Init /\ [][NextBindings]_vars

\* C27: every stored feature binding with a non-empty providerId refers to an
\* existing provider and to a model that provider currently owns.
C27_NoDanglingBinding ==
    \A f \in DOMAIN featureBindings :
        featureBindings[f].providerId # EmptyId =>
            /\ featureBindings[f].providerId \in ProviderIds
            /\ featureBindings[f].modelId
                  \in ModelIds(ProviderWithId(featureBindings[f].providerId))

\* C28: for every provider with a non-empty keyConfigs list, currentKeyIndex,
\* when set, is a valid index: 0 <= currentKeyIndex < keyConfigs.length.
C28_CurrentKeyIndexValid ==
    \A i \in 1..Len(providers) :
        (Len(providers[i].keyConfigs) > 0 /\ providers[i].currentKeyIndex # <<>>) =>
            /\ providers[i].currentKeyIndex[1] >= 0
            /\ providers[i].currentKeyIndex[1] < Len(providers[i].keyConfigs)

\* the part of C28 that holds: getApiKey and rotateApiKey leave a valid index
\* valid
C28_KeyOperationsKeepIndexValid ==
    [][(lastOp'.op \in {"getApiKey", "rotateApiKey"} /\ C28_CurrentKeyIndexValid)
          => C28_CurrentKeyIndexValid']_vars

(***************************************************************************)
(* SecretService: the cache in front of the secret storage                 *)
(***************************************************************************)

\* A secret id is a sequence of characters: "a" a lowercase letter or digit,
\* "-" a dash, "A" any other character.
SecretIdInputs ==
    {<<"a">>, <<"a", "-", "a">>, <<>>, <<"-", "a">>, <<"a", "-">>, <<"a", "-", "-", "a">>,
     <<"A">>}

\* SECRET_ID_PATTERN.test(id): /^[a-z0-9]+(-[a-z0-9]+)*$/
validateSecretId(id) ==
    /\ id # <<>>
    /\ \A i \in 1..Len(id) : id[i] \in {"a", "-"}
    /\ id[1] = "a"
    /\ id[Len(id)] = "a"
    /\ \A i \in 1..(Len(id) - 1) : ~(id[i] = "-" /\ id[i + 1] = "-")

SecretValues == {KEmpty, "v1", "v2"}

\* app.secretStorage.getSecret(id): the stored value, null when there is none
StorageGet(storage, id) == IF id \in DOMAIN storage THEN storage[id] ELSE KNull

\* Map.set(key, value)
MapSet(map, key, value) ==
    [k \in DOMAIN map \cup {key} |-> IF k = key THEN value ELSE map[k]]

\* getSecret: the value returned, and the cache afterwards
getSecret(C, storage, id) ==
    IF id \in DOMAIN C
    THEN [ret |-> C[id], cache |-> C]
    ELSE [ret |-> StorageGet(storage, id), cache |-> MapSet(C, id, StorageGet(storage, id))]

\* mutant: the storage is written and the cache is left as it was
setSecretUncached(C, storage, id, value) ==
    IF ~validateSecretId(id)
    THEN [threw |-> TRUE, storage |-> storage, cache |-> C]
    ELSE [threw |-> FALSE, storage |-> MapSet(storage, id, value), cache |-> C]

setSecret(C, storage, id, value) ==
    IF ~validateSecretId(id)
    THEN [threw |-> TRUE, storage |-> storage, cache |-> C]
    ELSE [threw |-> FALSE, storage |-> MapSet(storage, id, value),
          cache |-> MapSet(C, id, value)]

GetSecret(id) ==
    /\ cache' = getSecret(cache, secretStorage, id).cache
    /\ lastOp' = [op |-> "getSecret", args |-> <<id>>, threw |-> FALSE,
                  ret |-> Key(getSecret(cache, secretStorage, id).ret)]
    /\ UNCHANGED <<providers, featureBindings, nextId, secretServiceSet, secretStorage,
                   saved, rotLog, client, transport, calls, naming, parsing, terminal>>

SetSecret(id, value) ==
    /\ cache' = setSecret(cache, secretStorage, id, value).cache
    /\ secretStorage' = setSecret(cache, secretStorage, id, value).storage
    /\ lastOp' = [op |-> "setSecret", args |-> <<id, value>>,
                  threw |-> setSecret(cache, secretStorage, id, value).threw,
                  ret |-> NoResult]
    /\ UNCHANGED <<providers, featureBindings, nextId, secretServiceSet,
                   saved, rotLog, client, transport, calls, naming, parsing, terminal>>

ClearCache ==
    /\ cache' = EmptyCache
    /\ lastOp' = [op |-> "clearCache", args |-> <<>>, threw |-> FALSE, ret |-> NoResult]
    /\ UNCHANGED <<providers, featureBindings, nextId, secretServiceSet, secretStorage,
                   saved, rotLog, client, transport, calls, naming, parsing, terminal>>

\* the secret storage holds nothing and the cache is empty
InitSecrets ==
    /\ providers = <<>>
    /\ featureBindings = DEFAULT_FEATURE_BINDINGS
    /\ nextId = 1
    /\ secretServiceSet = TRUE
    /\ secretStorage = <<>>
    /\ lastOp = InitOp
    /\ saved = FALSE
    /\ rotLog = EmptyLog
    /\ client = ClientIdle
    /\ transport = TransportIdle
    /\ calls = CallsIdle
    /\ naming = NamingIdle
    /\ parsing = ParsingIdle
    /\ cache = EmptyCache
    /\ terminal = TerminalCreated

NextSecrets ==
    \/ \E id \in SecretIdInputs : GetSecret(id)
    \/ \E id \in SecretIdInputs, value \in SecretValues : SetSecret(id, value)
    \/ ClearCache

SpecSecrets == InitSecrets /\ [][NextSecrets]_vars

\* C29: getSecret(id) returns the value the secret storage holds for id, null
\* when there is none, and no cache entry differs from the storage.
C29_CacheCoherent ==
    /\ \A id \in DOMAIN cache : cache[id] = StorageGet(secretStorage, id)
    /\ lastOp.op = "getSecret" => lastOp.ret.value = StorageGet(secretStorage, lastOp.args[1])

\* C29 witness: getSecret returned a stored value from the cache, for an id the
\* cache is not the only holder of
C29_Witness ==
    /\ lastOp.op = "getSecret"
    /\ lastOp.args[1] \in DOMAIN cache
    /\ lastOp.ret.value = "v2"
    /\ secretStorage[lastOp.args[1]] = "v2"
    /\ Cardinality(DOMAIN cache) > 1

(***************************************************************************)
(* TerminalInstance: connection, reconnect and destroy                     *)
(***************************************************************************)
maxReconnectAttempts == 3

\* clearTimeout(this.connectionTimeout); this.connectionTimeout = null
clearConnectionTimeout(T) ==
    IF T.connectionTimeout
    THEN [T EXCEPT !.connectionTimeout = FALSE, !.connectionTimers = @ - 1]
    ELSE T

\* clearTimeout(this.reconnectTimeout); this.reconnectTimeout = null
clearReconnectTimeout(T) == [T EXCEPT !.reconnectTimeout = FALSE]

\* socket.close(): a socket that is connecting or open starts closing
closeSocket(T, k) ==
    IF k # 0 /\ T.sockets[k] \in {"connecting", "open"}
    THEN [T EXCEPT !.sockets[k] = "closing"]
    ELSE T

\* connectToServer up to the point where it waits for the socket's events
connectToServer(T, fromInitialize) ==
    IF T.isDestroyed THEN T
    ELSE [T EXCEPT !.connectionTimeout = TRUE,
                   !.connectionTimers = @ + 1,
                   !.sockets = Append(@, "connecting"),
                   !.ws = Len(T.sockets) + 1,
                   !.initSockets = IF fromInitialize THEN @ \cup {Len(T.sockets) + 1} ELSE @,
                   !.createdAfterDestroy = @ \/ T.isDestroyed]

\* mutant: a destroyed instance schedules reconnects as well
handleConnectionCloseWhenDestroyed(T) ==
    IF T.reconnectAttempts < maxReconnectAttempts
    THEN [clearReconnectTimeout(T) EXCEPT !.reconnectAttempts = @ + 1,
                                          !.reconnectTimeout = TRUE,
                                          !.sinceOpen = @ + 1,
                                          !.sinceReset = @ + 1]
    ELSE clearReconnectTimeout(T)

handleConnectionClose(T) ==
    IF T.isDestroyed THEN T
    ELSE IF T.reconnectAttempts < maxReconnectAttempts
    THEN [clearReconnectTimeout(T) EXCEPT !.reconnectAttempts = @ + 1,
                                          !.reconnectTimeout = TRUE,
                                          !.sinceOpen = @ + 1,
                                          !.sinceReset = @ + 1]
    ELSE clearReconnectTimeout(T)

handleServerCrash(T) ==
    IF T.isDestroyed THEN T
    ELSE [clearReconnectTimeout(T) EXCEPT !.reconnectAttempts = 0, !.sinceReset = 0]

destroy(T) ==
    IF T.isDestroyed THEN T
    ELSE [closeSocket(clearConnectionTimeout(clearReconnectTimeout(
              [T EXCEPT !.isDestroyed = TRUE])), T.ws) EXCEPT !.ws = 0]

\* ws.onopen of socket k, and the continuation of initialize() when it waits
\* for this socket
onopen(T, k) ==
    [clearConnectionTimeout(T) EXCEPT
        !.sockets[k] = "open",
        !.reconnectAttempts = 0,
        !.sinceOpen = 0,
        !.sinceReset = 0,
        !.isInitialized = @ \/ k \in T.initSockets]

\* ws.onerror (for a socket that never opened) and ws.onclose of socket k
onclose(T, k) ==
    handleConnectionClose(clearConnectionTimeout([T EXCEPT !.sockets[k] = "closed"]))

\* the callback of the connection timer
connectionTimedOut(T) ==
    IF T.ws # 0 /\ T.sockets[T.ws] # "open" THEN closeSocket(T, T.ws) ELSE T

TerminalStep(T) ==
    /\ terminal' = T
    /\ UNCHANGED <<providers, featureBindings, nextId, secretServiceSet, secretStorage,
                   lastOp, saved, rotLog, client, transport, calls, naming, parsing, cache>>

Initialize ==
    /\ Len(terminal.sockets) < MaxSockets
    /\ TerminalStep(IF terminal.isInitialized THEN terminal
                    ELSE connectToServer(terminal, TRUE))

SocketOpens(k) ==
    /\ terminal.sockets[k] = "connecting"
    /\ TerminalStep(onopen(terminal, k))

SocketCloses(k) ==
    /\ terminal.sockets[k] # "closed"
    /\ TerminalStep(onclose(terminal, k))

ReconnectTimerFires ==
    /\ terminal.reconnectTimeout
    /\ Len(terminal.sockets) < MaxSockets
    /\ TerminalStep(connectToServer([terminal EXCEPT !.reconnectTimeout = FALSE], FALSE))

\* one of the pending connection timers fires: the one the field refers to, or
\* one an earlier connectToServer left behind
ConnectionTimerFires(current) ==
    /\ IF current THEN terminal.connectionTimeout
       ELSE terminal.connectionTimers > (IF terminal.connectionTimeout THEN 1 ELSE 0)
    /\ TerminalStep(connectionTimedOut(
           [terminal EXCEPT !.connectionTimers = @ - 1,
                            !.connectionTimeout = IF current THEN FALSE ELSE @]))

HandleServerCrash ==
    /\ terminal' = handleServerCrash(terminal)
    /\ UNCHANGED <<providers, featureBindings, nextId, secretServiceSet, secretStorage,
                   lastOp, saved, rotLog, client, transport, calls, naming, parsing, cache>>

Destroy ==
    /\ terminal' = destroy(terminal)
    /\ UNCHANGED <<providers, featureBindings, nextId, secretServiceSet, secretStorage,
                   lastOp, saved, rotLog, client, transport, calls, naming, parsing, cache>>

NextTerminal ==
    \/ Initialize
    \/ \E k \in 1..MaxSockets : k <= Len(terminal.sockets) /\ SocketOpens(k)
    \/ \E k \in 1..MaxSockets : k <= Len(terminal.sockets) /\ SocketCloses(k)
    \/ ReconnectTimerFires
    \/ \E current \in BOOLEAN : ConnectionTimerFires(current)
    \/ HandleServerCrash
    \/ Destroy

SpecTerminal == Init /\ [][NextTerminal]_vars

\* after destroy() no connection is created and no reconnect timer is pending
DestroyedStaysQuiet ==
    terminal.isDestroyed => ~terminal.reconnectTimeout /\ ~terminal.createdAfterDestroy

\* C30 as stated: at most 3 reconnects are started since the last successful
\* open, and a destroyed instance opens no connection and has no reconnect timer
\* pending.
C30_Original ==
    /\ terminal.sinceOpen <= maxReconnectAttempts
    /\ DestroyedStaysQuiet

\* C30: at most 3 reconnects are started since the last successful open or the
\* last handleServerCrash(), and a destroyed instance opens no connection and
\* has no reconnect timer pending.
C30_ReconnectBounded ==
    /\ terminal.sinceReset <= maxReconnectAttempts
    /\ DestroyedStaysQuiet

\* C30 witness: three reconnects in a row failed, the last socket is closed, and no
\* further reconnect is scheduled
C30_Witness ==
    /\ ~terminal.isDestroyed
    /\ terminal.sinceReset = maxReconnectAttempts
    /\ terminal.sinceOpen = maxReconnectAttempts
    /\ Len(terminal.sockets) = maxReconnectAttempts + 1
    /\ \A k \in 1..Len(terminal.sockets) : terminal.sockets[k] = "closed"
    /\ ~terminal.reconnectTimeout

\* a destroyed instance whose socket has delivered its close event
C30_DestroyedWitness ==
    /\ terminal.isDestroyed
    /\ terminal.sockets # <<>>
    /\ \A k \in 1..Len(terminal.sockets) : terminal.sockets[k] = "closed"
    /\ terminal.sinceReset > 0

====
